---- MODULE Spec2Model ----
(***************************************************************************)
(* Service layer of the region controller: BaseService CRUD with hooks and *)
(* etag checks (maasservicelayer/services/_base.py), the hooks of          *)
(* StaticIPAddressService that register ConfigureDHCP workflow calls       *)
(* (maasservicelayer/services/staticipaddress.py), and the per-request     *)
(* service collection built by ServicesMiddleware.  Each request is one    *)
(* unit of work running in its own database transaction.                   *)
(***************************************************************************)
EXTENDS Integers, Sequences, FiniteSets, TLC

\* ---------------------------------------------------------------- bounds
\* Primary keys handed out by the id sequence are 1..MaxId.
MaxId == 3
\* Service calls made in all when one unit of work runs alone.
MaxOps == 2
\* Service calls made in all when two units of work run concurrently.
MaxConcurrentOps == 2
\* The ids the IP range table hands out, and the calls of the IP range
\* service in a run.
MaxRangeId == 2
MaxRangeOps == 3
\* The addresses IP ranges are made of are 0..MaxRangeAddr.
MaxRangeAddr == 2
\* DHCP snippets stored at most.
MaxSnippets == 2
\* Fabrics, VLANs, subnets, reserved IPs and IP ranges queried have the
\* ids 1..MaxFilterId.
MaxFilterId == 2
\* The boot architectures passed in one call are MaxArchs at most.
MaxArchs == 2
\* The calls of SecretsServiceFactory.produce in a run.
MaxProduces == 3
\* The strings passed to FileBackedID.set and found in its file are MaxText
\* characters long at most.
MaxText == 2
\* The calls of sync_deprecation_notifications in a run.
MaxSyncs == 3

\* ------------------------------------------------------------- constants
\* The concurrent requests (units of work).
Units == {"r1", "r2"}
Ids == 1..MaxId
Subnets == {7, 8}
RangeIds == 1..MaxRangeId

\* IpAddressType members used by the hooks.
AUTO == "AUTO"
DISCOVERED == "DISCOVERED"
AllocTypes == {AUTO, DISCOVERED}

CONFIGURE_DHCP_WORKFLOW_NAME == "configure-dhcp"

\* Python's None for a model, and the marker of a row a transaction has not
\* written.
NoRow == [id |-> 0, alloc_type |-> "none", subnet_id |-> 0]
Untouched == [id |-> -1, alloc_type |-> "untouched", subnet_id |-> 0]

\* None for etag_if_match.
NoEtag == <<>>

\* A field a partial-update resource does not set.
UnsetAlloc == "unset"
UnsetSubnet == 0

StaticIPAddress(id, alloc_type, subnet_id) ==
    [id |-> id, alloc_type |-> alloc_type, subnet_id |-> subnet_id]

\* The content-derived fingerprint of a model.
Etag(model) == <<model.alloc_type, model.subnet_id>>

Etags == {<<a, s>> : a \in AllocTypes, s \in Subnets}

\* CreateOrUpdateResource values: full ones for create, partial ones for update.
CreateResources ==
    {[alloc_type |-> a, subnet_id |-> s] : a \in AllocTypes, s \in Subnets}
UpdateResources ==
    {[alloc_type |-> a, subnet_id |-> UnsetSubnet] : a \in AllocTypes}
    \cup {[alloc_type |-> UnsetAlloc, subnet_id |-> s] : s \in Subnets}

\* The row after the fields the resource sets have been written.
ApplyResource(row, resource) ==
    [id |-> row.id,
     alloc_type |-> IF resource.alloc_type = UnsetAlloc
                    THEN row.alloc_type ELSE resource.alloc_type,
     subnet_id |-> IF resource.subnet_id = UnsetSubnet
                   THEN row.subnet_id ELSE resource.subnet_id]

\* ------------------------------------------------- ConfigureDHCP parameter
\* The fields of the parameter the services set; a field left out of the
\* call is empty.
ConfigureDHCPParamOf(static_ip_addr_ids, ip_range_ids, subnet_ids) ==
    [static_ip_addr_ids |-> static_ip_addr_ids,
     ip_range_ids |-> ip_range_ids,
     subnet_ids |-> subnet_ids]

ConfigureDHCPParam(static_ip_addr_ids, subnet_ids) ==
    ConfigureDHCPParamOf(static_ip_addr_ids, {}, subnet_ids)

Params ==
    {ConfigureDHCPParamOf(i, r, s) :
        i \in SUBSET Ids, r \in SUBSET RangeIds, s \in SUBSET Subnets}

\* The merge function is a callable; it is passed around as a function value
\* over pairs <<old, new>>.
merge_configure_dhcp_param ==
    [p \in Params \X Params |->
        ConfigureDHCPParamOf(
            p[1].static_ip_addr_ids \cup p[2].static_ip_addr_ids,
            p[1].ip_range_ids \cup p[2].ip_range_ids,
            p[1].subnet_ids \cup p[2].subnet_ids)]

\* ------------------------------------------------------ TemporalService
\* post_commit_workflows: the calls pending for the unit of work, one per
\* workflow name; calls: the register_or_update_workflow_call invocations of
\* the service call under way, in order, with their arguments; registered:
\* every call registered since the service was produced.
NewTemporalService ==
    [post_commit_workflows |-> <<>>, calls |-> <<>>, registered |-> {}]

WorkflowCall(workflow_name, parameter, wait) ==
    [workflow_name |-> workflow_name, parameter |-> parameter, wait |-> wait]

IsPending(ts, workflow_name) ==
    \E i \in DOMAIN ts.post_commit_workflows :
        ts.post_commit_workflows[i].workflow_name = workflow_name

PendingIndex(ts, workflow_name) ==
    CHOOSE i \in DOMAIN ts.post_commit_workflows :
        ts.post_commit_workflows[i].workflow_name = workflow_name

register_or_update_workflow_call(ts, workflow_name, parameter, parameter_merge_func, wait) ==
    [post_commit_workflows |->
        IF IsPending(ts, workflow_name)
        THEN LET i == PendingIndex(ts, workflow_name)
             IN [ts.post_commit_workflows EXCEPT
                    ![i] = WorkflowCall(
                        workflow_name,
                        parameter_merge_func[
                            <<ts.post_commit_workflows[i].parameter, parameter>>],
                        wait)]
        ELSE Append(ts.post_commit_workflows,
                    WorkflowCall(workflow_name, parameter, wait)),
     calls |-> Append(ts.calls, WorkflowCall(workflow_name, parameter, wait)),
     registered |->
        ts.registered \cup {WorkflowCall(workflow_name, parameter, wait)}]

\* ------------------------------------------- StaticIPAddressService hooks
\* Each hook takes the temporal service of the unit of work and returns it
\* after the hook has run.
\* A merge function that drops what was pending.
keep_new_param == [p \in Params \X Params |-> p[2]]

\* post_create_hook registering without merge_configure_dhcp_param.
post_create_hook_no_merge(ts, resource) ==
    IF resource.alloc_type # DISCOVERED
    THEN register_or_update_workflow_call(
             ts, CONFIGURE_DHCP_WORKFLOW_NAME,
             ConfigureDHCPParam({resource.id}, {}),
             keep_new_param, FALSE)
    ELSE ts

post_create_hook(ts, resource) ==
    IF resource.alloc_type # DISCOVERED
    THEN register_or_update_workflow_call(
             ts, CONFIGURE_DHCP_WORKFLOW_NAME,
             ConfigureDHCPParam({resource.id}, {}),
             merge_configure_dhcp_param, FALSE)
    ELSE ts

\* post_update_hook deciding on the alloc_type the row had before the update.
post_update_hook_old_type(ts, old_resource, updated_resource) ==
    IF old_resource.alloc_type # DISCOVERED
    THEN register_or_update_workflow_call(
             ts, CONFIGURE_DHCP_WORKFLOW_NAME,
             ConfigureDHCPParam({updated_resource.id}, {}),
             merge_configure_dhcp_param, FALSE)
    ELSE ts

post_update_hook(ts, old_resource, updated_resource) ==
    IF updated_resource.alloc_type # DISCOVERED
    THEN register_or_update_workflow_call(
             ts, CONFIGURE_DHCP_WORKFLOW_NAME,
             ConfigureDHCPParam({updated_resource.id}, {}),
             merge_configure_dhcp_param, FALSE)
    ELSE ts

\* create_or_update registering without merge_configure_dhcp_param.
create_or_update_register_no_merge(ts, ip) ==
    IF ip.alloc_type # DISCOVERED
    THEN register_or_update_workflow_call(
             ts, CONFIGURE_DHCP_WORKFLOW_NAME,
             ConfigureDHCPParam({ip.id}, {}),
             keep_new_param, FALSE)
    ELSE ts

\* The tail of create_or_update, after repository.create_or_update returned ip.
create_or_update_register(ts, ip) ==
    IF ip.alloc_type # DISCOVERED
    THEN register_or_update_workflow_call(
             ts, CONFIGURE_DHCP_WORKFLOW_NAME,
             ConfigureDHCPParam({ip.id}, {}),
             merge_configure_dhcp_param, FALSE)
    ELSE ts

\* post_delete_hook keyed by the id of the deleted row.
post_delete_hook_by_row_id(ts, resource) ==
    IF resource.alloc_type # DISCOVERED
    THEN register_or_update_workflow_call(
             ts, CONFIGURE_DHCP_WORKFLOW_NAME,
             ConfigureDHCPParam({resource.id}, {}),
             merge_configure_dhcp_param, FALSE)
    ELSE ts

post_delete_hook(ts, resource) ==
    IF resource.alloc_type # DISCOVERED
    THEN register_or_update_workflow_call(
             ts, CONFIGURE_DHCP_WORKFLOW_NAME,
             ConfigureDHCPParam({}, {resource.subnet_id}),
             merge_configure_dhcp_param, FALSE)
    ELSE ts

\* ------------------------------------------------------------ BaseService
\* etag_check that never raises.
etag_check_skipped(model, etag_if_match) == TRUE

\* etag_check that raises when the etags are equal.
etag_check_inverted(model, etag_if_match) ==
    ~(etag_if_match # NoEtag /\ Etag(model) = etag_if_match)

\* TRUE when the check passes, FALSE when it raises
\* PreconditionFailedException.
etag_check(model, etag_if_match) ==
    ~(etag_if_match # NoEtag /\ Etag(model) # etag_if_match)

\* _update_resource checking the etag before it looks whether the row exists.
update_precheck_etag_first(existing_resource, etag_if_match) ==
    IF ~etag_check(existing_resource, etag_if_match)
    THEN "precondition_failed"
    ELSE IF existing_resource = NoRow THEN "not_found" ELSE "proceed"

\* The checks _update_resource makes before it writes: the outcome is the
\* exception raised, or "proceed".
update_precheck(existing_resource, etag_if_match) ==
    IF existing_resource = NoRow THEN "not_found"
    ELSE IF ~etag_check(existing_resource, etag_if_match)
         THEN "precondition_failed"
         ELSE "proceed"

\* What _update_resource has called when the precheck ends.
update_precheck_events(existing_resource, etag_if_match) ==
    IF existing_resource = NoRow THEN <<>> ELSE <<"etag_check">>

\* _update_resource handing post_update_hook the updated resource first and
\* the resource it read second.
update_tail_swapped(ts, existing_resource, updated_resource) ==
    [ts |-> post_update_hook(ts, updated_resource, existing_resource),
     events |-> <<"repository.update_by_id", "post_update_hook">>,
     hook_args |-> <<updated_resource, existing_resource>>]

\* The rest of _update_resource once repository.update_by_id has returned
\* updated_resource; hook_args are the arguments post_update_hook is called
\* with.
update_tail(ts, existing_resource, updated_resource) ==
    [ts |-> post_update_hook(ts, existing_resource, updated_resource),
     events |-> <<"repository.update_by_id", "post_update_hook">>,
     hook_args |-> <<existing_resource, updated_resource>>]

\* StaticIPAddressService.post_update_many_hook and post_delete_many_hook:
\* how the hook ends when it is called with these resources.
post_many_hook_default(resources) == "ok"
post_update_many_hook(resources) == "not_implemented"
post_delete_many_hook(resources) == "not_implemented"

\* _delete_resource raising not-found on a missing row, as _update_resource
\* does.
delete_precheck_raising(resource, etag_if_match, hook_ok) ==
    IF resource = NoRow THEN "not_found"
    ELSE IF ~etag_check(resource, etag_if_match) THEN "precondition_failed"
    ELSE IF ~hook_ok THEN "pre_delete_hook_error"
    ELSE "proceed"

\* The steps of _delete_resource before the repository delete: the outcome is
\* "none" (return None), the exception raised, or "proceed".  hook_ok tells
\* whether the service's pre_delete_hook returns or raises.
delete_precheck(resource, etag_if_match, hook_ok) ==
    IF resource = NoRow THEN "none"
    ELSE IF ~etag_check(resource, etag_if_match) THEN "precondition_failed"
    ELSE IF ~hook_ok THEN "pre_delete_hook_error"
    ELSE "proceed"

delete_precheck_events(resource, etag_if_match, hook_ok) ==
    IF resource = NoRow THEN <<>>
    ELSE IF ~etag_check(resource, etag_if_match) THEN <<"etag_check">>
    ELSE <<"etag_check", "pre_delete_hook">>

\* _delete_resource calling post_delete_hook whatever the repository
\* returned.
delete_tail_always_hook(ts, deleted_resource) ==
    [ts |-> IF deleted_resource # NoRow
            THEN post_delete_hook(ts, deleted_resource) ELSE ts,
     events |-> <<"repository.delete_by_id", "post_delete_hook">>]

\* The rest of _delete_resource once repository.delete_by_id has returned
\* deleted_resource (NoRow when no row was deleted).
delete_tail(ts, deleted_resource) ==
    IF deleted_resource # NoRow
    THEN [ts |-> post_delete_hook(ts, deleted_resource),
          events |-> <<"repository.delete_by_id", "post_delete_hook">>]
    ELSE [ts |-> ts, events |-> <<"repository.delete_by_id">>]

\* ------------------------------------------------------------------ state
VARIABLES
    rows,        \* the committed table: id -> row or NoRow
    nextId,      \* the id sequence of the table
    tx,          \* per unit: the rows its open transaction has written
    phase,       \* per unit: idle, running, failed, committed, aborted
    op,          \* per unit: the service call suspended between two awaits
    temporal,    \* per service collection: its TemporalService
    last,        \* per unit: the service call it finished last
    history,     \* per unit: the rows its finished calls wrote or deleted
    dispatched,  \* per unit: the workflow calls sent to the workflow engine
    opsDone,     \* service calls started so far, by all units
    budget,      \* service calls the run makes at most
    subnetTable, \* SubnetTable: the committed subnet rows
    vlanTable,   \* VlanTable: the committed VLAN rows
    ipRangeTable,\* IPRangeTable: the committed IP range rows
    deletion,    \* the subnet delete under way in its own transaction
    answer,      \* the last lookup made and what it returned
    page,        \* the last call of VlansRepository.list and its result
    stable,      \* ids stored at the first page of the iteration and since
    listCalls,   \* the calls of list the iteration has made
    cursor,      \* a client iterating over the pages of list
    cache,       \* a ServiceCache slot and the calls of its cached method
    rangeSvc,    \* IPRangesService: what its last call did
    filters,     \* the last query filtered by a clause, and its rows
    builder,     \* a SubnetResourceBuilder and its last call
    secrets,     \* SecretsServiceFactory and its last produce
    fileId,      \* a FileBackedID, its file and the threads calling it
    notifications, \* the Notification table and the last sync of it
    startup      \* the startup lock and the calls start_up made

serviceVars ==
    <<rows, nextId, tx, phase, op, temporal, last, history, dispatched,
      opsDone, budget>>

\* The tables of the network model and the subnet delete.
networkVars == <<subnetTable, ipRangeTable, deletion, answer>>

\* The pagination of list.
listVars == <<page, cursor, stable, listCalls>>

\* The components modelled each on its own.
\* The region controller's process-wide helpers.
regionVars == <<fileId, notifications, startup>>

componentVars == <<cache, rangeSvc, filters, builder, secrets, regionVars>>

\* What the components leave alone.
earlierVars == <<serviceVars, networkVars, vlanTable, listVars, regionVars>>

vars == <<serviceVars, networkVars, vlanTable, listVars, componentVars>>

\* What the calls of the static IP address service leave alone.
notService == <<networkVars, vlanTable, listVars, componentVars>>

\* -------------------------------------------------- values meaning "none"
\* An IP address is its version and its value as a number.
NoIp == [version |-> 0, value |-> 0]

\* None for a Subnet and for an IPRange.
NoSubnet ==
    [id |-> 0, cidr |-> [version |-> 0, network |-> 0, prefixlen |-> 0],
     vlan_id |-> 0]
NoIPRange ==
    [id |-> 0, subnet_id |-> 0, type |-> "none", start_ip |-> NoIp,
     end_ip |-> NoIp]

\* No exception raised.
NoError == [exception |-> "none", type |-> "none"]

\* No subnet delete has started.
NoDeletion ==
    [pc |-> "idle", op |-> "none", id |-> 0, error |-> NoError,
     deleted |-> NoSubnet, serving |-> FALSE]

\* No lookup has been made.
NoAnswer ==
    [fn |-> "none", ip |-> NoIp, subnet_id |-> 0, scan |-> <<>>,
     subnet |-> NoSubnet, iprange |-> NoIPRange]

\* None for the token argument of list (a token is a string of decimal
\* digits, held as the sequence of its digits) and for next_token.
NoToken == <<>>
NoNextToken == 0

\* list has not been called; no iteration has started.
NoPage == [token |-> NoToken, size |-> 0, items |-> <<>>,
           next_token |-> NoNextToken]
NoCursor == [state |-> "start", size |-> 0, token |-> NoToken, seen |-> <<>>]

\* The network tables are empty and nothing happens on them.
NetworkAtRest ==
    /\ subnetTable = {}
    /\ ipRangeTable = {}
    /\ deletion = NoDeletion
    /\ answer = NoAnswer

\* list is not called.
ListAtRest ==
    /\ page = NoPage
    /\ cursor = NoCursor
    /\ stable = {}
    /\ listCalls = 0

\* None, as the value of a cache slot and as the result of a method.
None == 0

\* No call of the cached method is under way; none has returned.
Idle == -1
OtherAttrs == {"other"}
NoReturn == [unit |-> "none", arg |-> Idle, value |-> None, executed |-> FALSE]
NoCache ==
    [enabled |-> FALSE, slot |-> None, pending |-> [u \in Units |-> Idle],
     ret |-> NoReturn, others |-> [a \in OtherAttrs |-> None], last |-> "none",
     cleared |-> FALSE]

\* The IP range service has not been called.
NoRangeCall ==
    [op |-> "none", id |-> 0, outcome |-> "none", result |-> NoIPRange,
     repository |-> <<>>, snippet_deletes |-> <<>>,
     deleted_snippets |-> {}]
NoRangeSvc ==
    [nextId |-> 1, temporal |-> NewTemporalService, snippets |-> {},
     opsDone |-> 0, last |-> NoRangeCall]

\* No query has been made.
NoDatabase == [vlans |-> {}, subnets |-> {}, reservedips |-> {}, ipranges |-> {}]
NoQuery ==
    [db |-> NoDatabase, entity |-> "none", combinator |-> "none",
     names |-> <<>>, values |-> <<>>, joins |-> <<>>,
     result |-> [valid |-> TRUE, from |-> <<>>, ids |-> {}]]

\* A builder nothing has been set on, no call made on it.
NoRequest == [is_set |-> FALSE, disabled_boot_architectures |-> <<>>]
NoBuilder ==
    [pc |-> "idle", request |-> NoRequest, args |-> <<>>, error |-> NoError,
     rejected |-> "", repository |-> <<>>]

\* SecretsServiceFactory before its first produce, vault_enabled not set in
\* the configuration.
NoSecrets ==
    [IS_VAULT_ENABLED |-> "None", vault_enabled |-> "unset",
     service |-> [u \in Units |-> "none"], produced |-> 0, reads |-> 0]

\* The components are not used.
\* No FileBackedID is used, no notification is stored, start_up has not
\* been called.
NoFileId == [pc |-> "none"]
NoNotifications == [pc |-> "none"]
NoStartUp == [pc |-> "none"]
RegionAtRest ==
    /\ fileId = NoFileId
    /\ notifications = NoNotifications
    /\ startup = NoStartUp

ComponentsAtRest ==
    /\ cache = NoCache
    /\ rangeSvc = NoRangeSvc
    /\ filters = NoQuery
    /\ builder = NoBuilder
    /\ secrets = NoSecrets
    /\ RegionAtRest

NoOp ==
    [kind |-> "none", id |-> 0, existing |-> NoRow,
     resource |-> [alloc_type |-> UnsetAlloc, subnet_id |-> UnsetSubnet],
     etag_if_match |-> NoEtag, events |-> <<>>]

UpdateOps == {"update_by_id", "update_one"}
DeleteOps == {"delete_by_id", "delete_one"}

\* One finished service call: its arguments, the row it read, the row it
\* returned, how it ended, the repository calls and hooks it invoked and the
\* workflow calls it registered.
Entry(opname, id, etag_if_match, existing, result, outcome, events, calls) ==
    [op |-> opname, id |-> id, etag_if_match |-> etag_if_match,
     existing |-> existing, result |-> result, outcome |-> outcome,
     events |-> events, calls |-> calls, hook_args |-> <<>>]

NoEntry == Entry("none", 0, NoEtag, NoRow, NoRow, "none", <<>>, <<>>)

\* No static IP address service call is made.
ServiceAtRest ==
    /\ rows = [i \in Ids |-> NoRow]
    /\ nextId = 1
    /\ tx = [u \in Units |-> [i \in Ids |-> Untouched]]
    /\ phase = [u \in Units |-> "absent"]
    /\ temporal = [u \in Units |-> NewTemporalService]
    /\ op = [u \in Units |-> NoOp]
    /\ last = [u \in Units |-> NoEntry]
    /\ history = [u \in Units |-> {}]
    /\ dispatched = [u \in Units |-> <<>>]
    /\ opsDone = 0
    /\ budget = 0

\* A fact of the unit's history: a finished call of this kind left (or, for
\* a delete, removed) this row.
Did(kind, row) == [kind |-> kind, row |-> row]

EmptyTable == [i \in Ids |-> NoRow]
SeededTable ==
    [i \in Ids |->
        IF i = 1 THEN StaticIPAddress(1, AUTO, 7)
        ELSE IF i = 2 THEN StaticIPAddress(2, DISCOVERED, 8)
        ELSE NoRow]
InitialTables == {EmptyTable, SeededTable}

NoWrites == [i \in Ids |-> Untouched]

\* The table as the transaction of unit u sees it (read committed, plus its
\* own writes).
View(u) ==
    [i \in Ids |-> IF tx[u][i] = Untouched THEN rows[i] ELSE tx[u][i]]

\* A write to row id waits while another open transaction holds its lock.
CanWrite(u, id) ==
    \A v \in Units \ {u} : tx[v][id] = Untouched

\* One service collection shared by all requests.
SharedServiceKey(u) == "r1"

\* The service collection a request uses: ServicesMiddleware.dispatch
\* produces one for every request.
ServiceKey(u) == u

\* The temporal service of unit u as a service call finds it.
Service(u) == [temporal[ServiceKey(u)] EXCEPT !.calls = <<>>]

InitCommon ==
    /\ rows \in InitialTables
    /\ nextId = Cardinality({i \in Ids : rows[i] # NoRow}) + 1
    /\ tx = [u \in Units |-> NoWrites]
    /\ op = [u \in Units |-> NoOp]
    /\ temporal = [u \in Units |-> NewTemporalService]
    /\ last = [u \in Units |-> NoEntry]
    /\ history = [u \in Units |-> {}]
    /\ dispatched = [u \in Units |-> <<>>]
    /\ opsDone = 0
    /\ NetworkAtRest
    /\ vlanTable = {}
    /\ ListAtRest
    /\ ComponentsAtRest

\* One request is served; no other request arrives.
Init ==
    /\ InitCommon
    /\ phase = [u \in Units |-> IF u = "r1" THEN "idle" ELSE "absent"]
    /\ budget = MaxOps

\* Two requests are served concurrently.
InitConcurrent ==
    /\ InitCommon
    /\ phase = [u \in Units |-> "idle"]
    /\ budget = MaxConcurrentOps

CanStart(u) ==
    /\ phase[u] = "running"
    /\ op[u] = NoOp
    /\ opsDone < budget

\* ServicesMiddleware.dispatch: the request gets its services and its
\* transaction.
ServicesMiddlewareDispatch(u) ==
    /\ UNCHANGED notService
    /\ phase[u] = "idle"
    /\ phase' = [phase EXCEPT ![u] = "running"]
    /\ temporal' = [temporal EXCEPT ![ServiceKey(u)] = NewTemporalService]
    /\ UNCHANGED <<rows, nextId, tx, op, last, history, dispatched, opsDone,
                   budget>>

\* create whose repository write does not go through the transaction of the
\* unit of work.
CreateAutocommit(u, resource) ==
    /\ UNCHANGED notService
    /\ CanStart(u)
    /\ nextId <= MaxId
    /\ LET created == StaticIPAddress(nextId, resource.alloc_type,
                                      resource.subnet_id)
           ts == post_create_hook(Service(u), created)
       IN /\ rows' = [rows EXCEPT ![nextId] = created]
          /\ temporal' = [temporal EXCEPT ![ServiceKey(u)] = ts]
          /\ last' = [last EXCEPT ![u] =
                        Entry("create", created.id, NoEtag, NoRow, created,
                              "ok",
                              <<"repository.create", "post_create_hook">>,
                              ts.calls)]
          /\ history' = [history EXCEPT
                            ![u] = @ \cup {Did("create", created)}]
    /\ nextId' = nextId + 1
    /\ opsDone' = opsDone + 1
    /\ UNCHANGED <<tx, phase, op, dispatched, budget>>

\* BaseService.create
Create(u, resource) ==
    /\ UNCHANGED notService
    /\ CanStart(u)
    /\ nextId <= MaxId
    /\ LET created == StaticIPAddress(nextId, resource.alloc_type,
                                      resource.subnet_id)
           ts == post_create_hook(Service(u), created)
       IN /\ tx' = [tx EXCEPT ![u][nextId] = created]
          /\ temporal' = [temporal EXCEPT ![ServiceKey(u)] = ts]
          /\ last' = [last EXCEPT ![u] =
                        Entry("create", created.id, NoEtag, NoRow, created,
                              "ok",
                              <<"repository.create", "post_create_hook">>,
                              ts.calls)]
          /\ history' = [history EXCEPT
                            ![u] = @ \cup {Did("create", created)}]
    /\ nextId' = nextId + 1
    /\ opsDone' = opsDone + 1
    /\ UNCHANGED <<rows, phase, op, dispatched, budget>>

\* StaticIPAddressService.create_or_update: target is the row the resource's
\* unique key matches, 0 when it matches none.
CreateOrUpdate(u, target, resource) ==
    /\ UNCHANGED notService
    /\ CanStart(u)
    /\ IF target = 0
       THEN nextId <= MaxId
       ELSE View(u)[target] # NoRow /\ CanWrite(u, target)
    /\ LET id == IF target = 0 THEN nextId ELSE target
           ip == StaticIPAddress(id, resource.alloc_type, resource.subnet_id)
           ts == create_or_update_register(Service(u), ip)
       IN /\ tx' = [tx EXCEPT ![u][id] = ip]
          /\ temporal' = [temporal EXCEPT ![ServiceKey(u)] = ts]
          /\ last' = [last EXCEPT ![u] =
                        Entry("create_or_update", id, NoEtag,
                              IF target = 0 THEN NoRow ELSE View(u)[target],
                              ip, "ok", <<"repository.create_or_update">>,
                              ts.calls)]
          /\ history' = [history EXCEPT
                            ![u] = @ \cup {Did("create_or_update", ip)}]
    /\ nextId' = IF target = 0 THEN nextId + 1 ELSE nextId
    /\ opsDone' = opsDone + 1
    /\ UNCHANGED <<rows, phase, op, dispatched, budget>>

\* BaseService.update_by_id / update_one up to the await of
\* repository.update_by_id: the fetch (get_by_id, or get_one with a query on
\* the id) and the checks of _update_resource.
UpdateBegin(u, opname, id, resource, etag_if_match) ==
    /\ UNCHANGED notService
    /\ CanStart(u)
    /\ LET existing == View(u)[id]
           outcome == update_precheck(existing, etag_if_match)
           events == update_precheck_events(existing, etag_if_match)
       IN IF outcome = "proceed"
          THEN /\ op' = [op EXCEPT ![u] =
                            [kind |-> opname, id |-> id, existing |-> existing,
                             resource |-> resource,
                             etag_if_match |-> etag_if_match,
                             events |-> events]]
               /\ UNCHANGED <<last, phase>>
          ELSE /\ last' = [last EXCEPT ![u] =
                             Entry(opname, id, etag_if_match, existing, NoRow,
                                   outcome, events, <<>>)]
               /\ phase' = [phase EXCEPT ![u] = "failed"]
               /\ UNCHANGED op
    /\ opsDone' = opsDone + 1
    /\ UNCHANGED <<rows, nextId, tx, temporal, history, dispatched, budget>>

\* The fact that update_by_id went on to write the row it had read, having
\* been given an etag_if_match.
IfMatch(o) ==
    IF o.kind = "update_by_id" /\ o.etag_if_match # NoEtag
    THEN {Did("update_by_id_if_match", o.existing)}
    ELSE {}

\* The repository update and what follows it in _update_resource.  A row
\* deleted by a transaction that committed since the fetch makes the
\* repository raise not-found.
UpdateFinish(u) ==
    /\ UNCHANGED notService
    /\ phase[u] = "running"
    /\ op[u].kind \in UpdateOps
    /\ CanWrite(u, op[u].id)
    /\ LET o == op[u]
           current == View(u)[o.id]
           updated == ApplyResource(current, o.resource)
           tail == update_tail(Service(u), o.existing, updated)
       IN IF current = NoRow
          THEN /\ last' = [last EXCEPT ![u] =
                             Entry(o.kind, o.id, o.etag_if_match, o.existing,
                                   NoRow, "not_found",
                                   o.events \o <<"repository.update_by_id">>,
                                   <<>>)]
               /\ phase' = [phase EXCEPT ![u] = "failed"]
               /\ UNCHANGED <<tx, temporal, history>>
          ELSE /\ tx' = [tx EXCEPT ![u][o.id] = updated]
               /\ temporal' = [temporal EXCEPT ![ServiceKey(u)] = tail.ts]
               /\ last' = [last EXCEPT ![u] =
                             [Entry(o.kind, o.id, o.etag_if_match, o.existing,
                                    updated, "ok", o.events \o tail.events,
                                    tail.ts.calls)
                                 EXCEPT !.hook_args = tail.hook_args]]
               /\ history' = [history EXCEPT
                                 ![u] = @ \cup {Did("update", updated)}
                                          \cup IfMatch(o)]
               /\ UNCHANGED phase
    /\ op' = [op EXCEPT ![u] = NoOp]
    /\ UNCHANGED <<rows, nextId, dispatched, opsDone,
                   budget>>

\* The rows of the table, as unit u sees it, that the query "subnet_id =
\* subnet_id" matches.
Matching(u, subnet_id) ==
    {i \in Ids : View(u)[i] # NoRow /\ View(u)[i].subnet_id = subnet_id}

\* BaseService.update_many with a query on the subnet: the repository
\* updates every matching row, then post_update_many_hook is called with
\* the updated rows.
UpdateMany(u, subnet_id, resource) ==
    /\ UNCHANGED notService
    /\ CanStart(u)
    /\ \A i \in Matching(u, subnet_id) : CanWrite(u, i)
    /\ LET updated_resources ==
               {ApplyResource(View(u)[i], resource) :
                   i \in Matching(u, subnet_id)}
           outcome == post_update_many_hook(updated_resources)
       IN /\ tx' = [tx EXCEPT ![u] =
                       [i \in Ids |->
                           IF i \in Matching(u, subnet_id)
                           THEN ApplyResource(View(u)[i], resource)
                           ELSE tx[u][i]]]
          /\ last' = [last EXCEPT ![u] =
                        [Entry("update_many", 0, NoEtag, NoRow, NoRow, outcome,
                               <<"repository.update_many",
                                 "post_update_many_hook">>, <<>>)
                            EXCEPT !.hook_args = <<updated_resources>>]]
          /\ phase' = [phase EXCEPT ![u] =
                          IF outcome = "ok" THEN "running" ELSE "failed"]
    /\ opsDone' = opsDone + 1
    /\ UNCHANGED <<rows, nextId, op, temporal, history, dispatched, budget>>

\* BaseService.delete_many with a query on the subnet: the repository
\* deletes every matching row, then post_delete_many_hook is called with
\* the deleted rows.
DeleteMany(u, subnet_id) ==
    /\ UNCHANGED notService
    /\ CanStart(u)
    /\ \A i \in Matching(u, subnet_id) : CanWrite(u, i)
    /\ LET deleted_resources == {View(u)[i] : i \in Matching(u, subnet_id)}
           outcome == post_delete_many_hook(deleted_resources)
       IN /\ tx' = [tx EXCEPT ![u] =
                       [i \in Ids |->
                           IF i \in Matching(u, subnet_id)
                           THEN NoRow ELSE tx[u][i]]]
          /\ last' = [last EXCEPT ![u] =
                        [Entry("delete_many", 0, NoEtag, NoRow, NoRow, outcome,
                               <<"repository.delete_many",
                                 "post_delete_many_hook">>, <<>>)
                            EXCEPT !.hook_args = <<deleted_resources>>]]
          /\ phase' = [phase EXCEPT ![u] =
                          IF outcome = "ok" THEN "running" ELSE "failed"]
    /\ opsDone' = opsDone + 1
    /\ UNCHANGED <<rows, nextId, op, temporal, history, dispatched, budget>>

\* BaseService.delete_by_id / delete_one up to the await of
\* repository.delete_by_id: the fetch, the etag check and pre_delete_hook.
DeleteBegin(u, opname, id, etag_if_match, hook_ok) ==
    /\ UNCHANGED notService
    /\ CanStart(u)
    /\ LET resource == View(u)[id]
           outcome == delete_precheck(resource, etag_if_match, hook_ok)
           events == delete_precheck_events(resource, etag_if_match, hook_ok)
       IN IF outcome = "proceed"
          THEN /\ op' = [op EXCEPT ![u] =
                            [kind |-> opname, id |-> id, existing |-> resource,
                             resource |-> NoOp.resource,
                             etag_if_match |-> etag_if_match,
                             events |-> events]]
               /\ UNCHANGED <<last, phase>>
          ELSE /\ last' = [last EXCEPT ![u] =
                             Entry(opname, id, etag_if_match, resource, NoRow,
                                   outcome, events, <<>>)]
               /\ phase' = [phase EXCEPT ![u] =
                               IF outcome = "none" THEN "running" ELSE "failed"]
               /\ UNCHANGED op
    /\ opsDone' = opsDone + 1
    /\ UNCHANGED <<rows, nextId, tx, temporal, history, dispatched, budget>>

\* The repository delete and what follows it in _delete_resource.
DeleteFinish(u) ==
    /\ UNCHANGED notService
    /\ phase[u] = "running"
    /\ op[u].kind \in DeleteOps
    /\ CanWrite(u, op[u].id)
    /\ LET o == op[u]
           deleted == View(u)[o.id]
           tail == delete_tail(Service(u), deleted)
       IN /\ tx' = [tx EXCEPT ![u][o.id] =
                       IF deleted = NoRow THEN @ ELSE NoRow]
          /\ temporal' = [temporal EXCEPT ![ServiceKey(u)] = tail.ts]
          /\ last' = [last EXCEPT ![u] =
                        Entry(o.kind, o.id, o.etag_if_match, o.existing,
                              deleted,
                              IF deleted = NoRow THEN "none" ELSE "ok",
                              o.events \o tail.events, tail.ts.calls)]
          /\ history' = [history EXCEPT ![u] =
                            IF deleted = NoRow THEN @
                            ELSE @ \cup {Did("delete", deleted)}]
    /\ op' = [op EXCEPT ![u] = NoOp]
    /\ UNCHANGED <<rows, nextId, phase, dispatched, opsDone,
                   budget>>

\* The unit of work ends normally: the transaction commits and the pending
\* workflow calls are sent to the workflow engine.
Commit(u) ==
    /\ UNCHANGED notService
    /\ phase[u] = "running"
    /\ op[u] = NoOp
    /\ rows' = View(u)
    /\ tx' = [tx EXCEPT ![u] = NoWrites]
    /\ dispatched' = [dispatched EXCEPT
                         ![u] = temporal[ServiceKey(u)].post_commit_workflows]
    /\ phase' = [phase EXCEPT ![u] = "committed"]
    /\ last' = [last EXCEPT ![u] = NoEntry]
    /\ UNCHANGED <<nextId, op, temporal, history, opsDone, budget>>

\* The unit of work aborts (an exception reaches the request boundary, or
\* the request is cancelled): the transaction rolls back and the pending
\* calls are dropped.
Abort(u) ==
    /\ UNCHANGED notService
    /\ phase[u] \in {"running", "failed"}
    /\ tx' = [tx EXCEPT ![u] = NoWrites]
    /\ op' = [op EXCEPT ![u] = NoOp]
    /\ phase' = [phase EXCEPT ![u] = "aborted"]
    /\ last' = [last EXCEPT ![u] = NoEntry]
    /\ UNCHANGED <<rows, nextId, temporal, history, dispatched, opsDone,
                   budget>>

Next ==
    \/ \E u \in Units : ServicesMiddlewareDispatch(u)
    \/ \E u \in Units, r \in CreateResources : Create(u, r)
    \/ \E u \in Units, t \in Ids \cup {0}, r \in CreateResources :
          CreateOrUpdate(u, t, r)
    \/ \E u \in Units, o \in UpdateOps, i \in Ids, r \in UpdateResources,
          e \in Etags \cup {NoEtag} : UpdateBegin(u, o, i, r, e)
    \/ \E u \in Units : UpdateFinish(u)
    \/ \E u \in Units, s \in Subnets, r \in UpdateResources :
          UpdateMany(u, s, r)
    \/ \E u \in Units, s \in Subnets : DeleteMany(u, s)
    \/ \E u \in Units, o \in DeleteOps, i \in Ids, e \in Etags \cup {NoEtag},
          h \in BOOLEAN : DeleteBegin(u, o, i, e, h)
    \/ \E u \in Units : DeleteFinish(u)
    \/ \E u \in Units : Commit(u)
    \/ \E u \in Units : Abort(u)

Spec == Init /\ [][Next]_vars

SpecConcurrent == InitConcurrent /\ [][Next]_vars

\* ---------------------------------------------------------- IP addresses
\* An IPv4 address has AddrBits bits and an IPv6 address one more; the upper
\* half of the IPv6 space stands for ::ffff:0:0/96, the IPv4-mapped
\* addresses.
AddrBits == 3

RECURSIVE Pow2(_)
Pow2(n) == IF n = 0 THEN 1 ELSE 2 * Pow2(n - 1)

Bits(version) == IF version = 4 THEN AddrBits ELSE AddrBits + 1

IPv4(value) == [version |-> 4, value |-> value]
IPv6(value) == [version |-> 6, value |-> value]

IPv4Addresses == {IPv4(v) : v \in 0..(Pow2(Bits(4)) - 1)}
IPv6Addresses == {IPv6(v) : v \in 0..(Pow2(Bits(6)) - 1)}
IPAddresses == IPv4Addresses \cup IPv6Addresses

\* netaddr's IPAddress.is_ipv4_mapped() and IPAddress.ipv4().
is_ipv4_mapped(ip) ==
    ip.version = 6 /\ ip.value \div Pow2(AddrBits) = 1
ipv4(ip) == IPv4(ip.value % Pow2(AddrBits))

Cidr(version, network, prefixlen) ==
    [version |-> version, network |-> network, prefixlen |-> prefixlen]

\* PostgreSQL's masklen(cidr) and cidr >> inet ("contains").
masklen(cidr) == cidr.prefixlen
CidrContains(cidr, ip) ==
    /\ cidr.version = ip.version
    /\ ip.value \div Pow2(Bits(cidr.version) - cidr.prefixlen)
         = cidr.network \div Pow2(Bits(cidr.version) - cidr.prefixlen)

\* netaddr: ip in IPRange(start_ip, end_ip).
InIPRange(ip, start_ip, end_ip) ==
    /\ ip.version = start_ip.version
    /\ start_ip.value <= ip.value
    /\ ip.value <= end_ip.value

\* ------------------------------------------------------- network tables
Subnet(id, cidr, vlan_id) == [id |-> id, cidr |-> cidr, vlan_id |-> vlan_id]
Vlan(id, dhcp_on) == [id |-> id, dhcp_on |-> dhcp_on]
IPRange(id, subnet_id, type, start_ip, end_ip) ==
    [id |-> id, subnet_id |-> subnet_id, type |-> type,
     start_ip |-> start_ip, end_ip |-> end_ip]

\* The subnets that may be stored: three nested IPv4 networks on two VLANs
\* and the IPv6 network ::/0.
SubnetCatalog ==
    {Subnet(1, Cidr(4, 0, 1), 1), Subnet(2, Cidr(4, 0, 2), 2),
     Subnet(3, Cidr(4, 0, 0), 2), Subnet(4, Cidr(6, 0, 0), 1)}
SubnetIds == {s.id : s \in SubnetCatalog}
VlanIds == {1, 2}

\* The ranges that may be stored; those of one subnet do not overlap, and
\* address 2 lies in the gap between the two ranges of subnet 1.
IPRangeCatalog ==
    {IPRange(1, 1, "dynamic", IPv4(0), IPv4(1)),
     IPRange(2, 1, "reserved", IPv4(3), IPv4(3)),
     IPRange(3, 2, "dynamic", IPv4(1), IPv4(1))}

\* The tables hold any of the catalogued rows; a range is stored only with
\* its subnet, and every VLAN a subnet names is stored.
InitNetworkTables ==
    /\ subnetTable \in SUBSET SubnetCatalog
    /\ vlanTable \in {{Vlan(1, a), Vlan(2, b)} : a, b \in BOOLEAN}
    /\ ipRangeTable \in
          SUBSET {r \in IPRangeCatalog :
                     \E s \in subnetTable : s.id = r.subnet_id}

InitNetwork ==
    /\ ServiceAtRest
    /\ ListAtRest
    /\ ComponentsAtRest
    /\ InitNetworkTables
    /\ deletion = NoDeletion
    /\ answer = NoAnswer

\* ---------------------------------------------------------- subnet delete
PRECONDITION_FAILED == "PreconditionFailed"

\* The EXISTS subquery of _pre_delete_checks.  It selects from SubnetTable
\* joined to VlanTable and IPRangeTable: its FROM clause is that join, which
\* names SubnetTable itself, so the subquery does not refer to the row of
\* the enclosing SELECT.
vlan_dhcp_on_and_dynamic_ip_range ==
    \E s \in subnetTable, v \in vlanTable, r \in ipRangeTable :
        /\ s.vlan_id = v.id
        /\ s.id = r.subnet_id
        /\ v.dhcp_on = TRUE
        /\ r.type = "dynamic"

\* _pre_delete_checks that never raises.
pre_delete_checks_skipped(id) == NoError

\* SubnetsRepository._pre_delete_checks with a query on the id: the
\* exception it raises, NoError when it returns.
pre_delete_checks(id) ==
    LET subnet ==
            {s \in subnetTable :
                vlan_dhcp_on_and_dynamic_ip_range /\ s.id = id}
    IN IF subnet # {}
       THEN [exception |-> "ValidationException",
             type |-> PRECONDITION_FAILED]
       ELSE NoError

SubnetDeleteOps == {"delete_one", "delete_by_id"}

\* SubnetsRepository.delete_one / delete_by_id up to the end of
\* _pre_delete_checks.
SubnetPreDeleteChecks(opname, id) ==
    /\ deletion.pc = "idle"
    /\ deletion' =
          [deletion EXCEPT
              !.op = opname, !.id = id,
              !.error = pre_delete_checks(id),
              !.pc = IF pre_delete_checks(id) = NoError
                     THEN "checked" ELSE "rejected"]
    /\ UNCHANGED <<serviceVars, componentVars, listVars, subnetTable, vlanTable,
                   ipRangeTable, answer>>

\* super().delete_one: the DELETE statement, awaited after the check.  The
\* row is gone for this transaction and locked for the others; serving
\* records whether the subnet had a dynamic range on a DHCP-enabled VLAN
\* when the statement ran.
SubnetDelete ==
    /\ deletion.pc = "checked"
    /\ LET found == {s \in subnetTable : s.id = deletion.id}
       IN deletion' =
             [deletion EXCEPT
                 !.pc = "deleted",
                 !.deleted = IF found = {} THEN NoSubnet
                             ELSE CHOOSE s \in found : TRUE,
                 !.serving =
                     \E s \in found, v \in vlanTable, r \in ipRangeTable :
                         /\ v.id = s.vlan_id /\ v.dhcp_on
                         /\ r.subnet_id = s.id /\ r.type = "dynamic"]
    /\ UNCHANGED <<serviceVars, componentVars, listVars, subnetTable, vlanTable,
                   ipRangeTable, answer>>

\* The transaction of the delete commits: the subnet and the ranges it
\* contains leave the tables.
SubnetDeleteCommit ==
    /\ deletion.pc = "deleted"
    /\ deletion' = [deletion EXCEPT !.pc = "committed"]
    /\ subnetTable' = subnetTable \ {deletion.deleted}
    /\ ipRangeTable' =
          {r \in ipRangeTable : r.subnet_id # deletion.deleted.id}
    /\ UNCHANGED <<serviceVars, componentVars, listVars, vlanTable, answer>>

\* The transaction of the delete rolls back, after the exception of the
\* check or for any other reason.
SubnetDeleteRollback ==
    /\ deletion.pc \in {"checked", "rejected", "deleted"}
    /\ deletion' = [deletion EXCEPT !.pc = "aborted"]
    /\ UNCHANGED <<serviceVars, componentVars, listVars, subnetTable, vlanTable,
                   ipRangeTable, answer>>

\* A row of SubnetTable the deleting transaction has deleted and not yet
\* committed is locked: no row that refers to it can be inserted.
SubnetLocked(id) ==
    deletion.pc = "deleted" /\ deletion.deleted.id = id

\* A concurrent writer commits a change of dhcp_on on a VLAN.
SetDhcpOn(vlan_id, dhcp_on) ==
    /\ Vlan(vlan_id, ~dhcp_on) \in vlanTable
    /\ vlanTable' =
          (vlanTable \ {Vlan(vlan_id, ~dhcp_on)})
              \cup {Vlan(vlan_id, dhcp_on)}
    /\ UNCHANGED <<serviceVars, componentVars, listVars, subnetTable, ipRangeTable,
                   deletion, answer>>

\* A concurrent writer commits the creation of an IP range.
CreateIPRange(iprange) ==
    /\ iprange \notin ipRangeTable
    /\ \E s \in subnetTable : s.id = iprange.subnet_id
    /\ ~SubnetLocked(iprange.subnet_id)
    /\ ipRangeTable' = ipRangeTable \cup {iprange}
    /\ UNCHANGED <<serviceVars, componentVars, listVars, subnetTable, vlanTable, deletion,
                   answer>>

\* A concurrent writer commits the deletion of an IP range.
DeleteIPRange(iprange) ==
    /\ iprange \in ipRangeTable
    /\ ipRangeTable' = ipRangeTable \ {iprange}
    /\ UNCHANGED <<serviceVars, componentVars, listVars, subnetTable, vlanTable, deletion,
                   answer>>

NextSubnetDelete ==
    \/ \E o \in SubnetDeleteOps, i \in SubnetIds : SubnetPreDeleteChecks(o, i)
    \/ SubnetDelete
    \/ SubnetDeleteCommit
    \/ SubnetDeleteRollback
    \/ \E v \in VlanIds, b \in BOOLEAN : SetDhcpOn(v, b)
    \/ \E r \in IPRangeCatalog : CreateIPRange(r)
    \/ \E r \in IPRangeCatalog : DeleteIPRange(r)

\* One subnet delete in its transaction, with concurrent writers on the
\* VLANs and the IP ranges.
SpecSubnetDelete == InitNetwork /\ [][NextSubnetDelete]_vars

\* ---------------------------------------------------------------- lookups
\* find_best_subnet_for_ip searching for the address as it was given.
search_address_as_given(ip) == ip

\* The address find_best_subnet_for_ip searches for: an IPv4-mapped IPv6
\* address is replaced by its IPv4 form.
search_address(ip) == IF is_ipv4_mapped(ip) THEN ipv4(ip) ELSE ip

\* ORDER BY prefixlen DESC alone.
SortKeyPrefixOnly(s, dhcp_on) == masklen(s.cidr)

\* ORDER BY dhcp_on DESC, prefixlen DESC: the rows come by descending key.
SortKey(s, dhcp_on) ==
    (IF dhcp_on THEN 1 ELSE 0) * (Bits(6) + 1) + masklen(s.cidr)

\* The rows of the SELECT of find_best_subnet_for_ip, each with the dhcp_on
\* of the VLAN it is joined to.
ContainingSubnets(ip_addr) ==
    {[subnet |-> j[1], dhcp_on |-> j[2].dhcp_on] :
        j \in {k \in subnetTable \X vlanTable :
                  /\ k[2].id = k[1].vlan_id
                  /\ CidrContains(k[1].cidr, ip_addr)}}

\* SubnetsRepository.find_best_subnet_for_ip: the subnets .first() can
\* return, the empty set when the SELECT has no row.
find_best_subnet_for_ip(ip) ==
    LET found == ContainingSubnets(search_address(ip))
    IN {first.subnet : first \in {row \in found :
           \A other \in found :
               SortKey(other.subnet, other.dhcp_on)
                   <= SortKey(row.subnet, row.dhcp_on)}}

\* A lookup changes no table, so a run makes one: answer keeps it.
FindBestSubnetForIp(ip) ==
    /\ answer = NoAnswer
    /\ \E subnet \in IF find_best_subnet_for_ip(ip) = {} THEN {NoSubnet}
                      ELSE find_best_subnet_for_ip(ip) :
          answer' = [NoAnswer EXCEPT !.fn = "find_best_subnet_for_ip",
                                     !.ip = ip, !.subnet = subnet]
    /\ UNCHANGED <<serviceVars, componentVars, listVars, subnetTable, vlanTable,
                   ipRangeTable, deletion>>

\* The loop of get_dynamic_range_for_ip comparing with the end of the range
\* excluded.
RECURSIVE scan_end_excluded(_, _)
scan_end_excluded(ipranges, netaddr_ip) ==
    IF ipranges = <<>> THEN NoIPRange
    ELSE IF /\ InIPRange(netaddr_ip, Head(ipranges).start_ip,
                         Head(ipranges).end_ip)
            /\ netaddr_ip # Head(ipranges).end_ip
         THEN Head(ipranges)
         ELSE scan_end_excluded(Tail(ipranges), netaddr_ip)

\* The loop of get_dynamic_range_for_ip over the rows the SELECT returned.
RECURSIVE scan(_, _)
scan(ipranges, netaddr_ip) ==
    IF ipranges = <<>> THEN NoIPRange
    ELSE IF InIPRange(netaddr_ip, Head(ipranges).start_ip,
                      Head(ipranges).end_ip)
         THEN Head(ipranges)
         ELSE scan(Tail(ipranges), netaddr_ip)

\* The orders in which a SELECT without ORDER BY can return these rows.
RowOrders(set) ==
    {q \in [1..Cardinality(set) -> set] :
        \A i, j \in 1..Cardinality(set) : i # j => q[i] # q[j]}

\* IPRangesRepository.get_dynamic_range_for_ip: the SELECT of the ranges
\* joined to the subnet, then the scan.
GetDynamicRangeForIp(subnet, ip) ==
    /\ answer = NoAnswer
    /\ \E ipranges \in RowOrders(
              {r \in ipRangeTable :
                  /\ r.subnet_id = subnet.id
                  /\ \E s \in subnetTable : s.id = r.subnet_id}) :
          answer' = [NoAnswer EXCEPT !.fn = "get_dynamic_range_for_ip",
                                     !.ip = ip, !.subnet_id = subnet.id,
                                     !.scan = ipranges,
                                     !.iprange = scan(ipranges, ip)]
    /\ UNCHANGED <<serviceVars, componentVars, listVars, subnetTable, vlanTable,
                   ipRangeTable, deletion>>

NextLookup ==
    \/ \E ip \in IPAddresses : FindBestSubnetForIp(ip)
    \/ \E s \in SubnetCatalog, ip \in IPAddresses :
          GetDynamicRangeForIp(s, ip)

\* Lookups on any stored tables.
SpecLookup == InitNetwork /\ [][NextLookup]_vars

\* ------------------------------------------------------------ pagination
\* The VLAN ids that may be stored are 8..(7 + MaxVlans): their string
\* forms have one digit and two digits.
MaxVlans == 4
\* The page sizes asked for are 1..MaxSize.
MaxSize == 3

ListIds == 8..(7 + MaxVlans)
Sizes == 1..MaxSize

\* Python's str(id) and int(token) on decimal strings, a string being the
\* sequence of its digits.
RECURSIVE str(_)
str(n) == IF n < 10 THEN <<n>> ELSE Append(str(n \div 10), n % 10)

RECURSIVE int(_)
int(token) ==
    IF token = <<>> THEN 0
    ELSE 10 * int(SubSeq(token, 1, Len(token) - 1)) + token[Len(token)]

\* ORDER BY id DESC.
RECURSIVE Descending(_)
Descending(ids) ==
    IF ids = {} THEN <<>>
    ELSE LET top == CHOOSE i \in ids : \A j \in ids : j <= i
         IN <<top>> \o Descending(ids \ {top})

\* LIMIT n.
Limit(result, n) ==
    SubSeq(result, 1, IF Len(result) < n THEN Len(result) ELSE n)

\* The WHERE clause of list keeping the rows below the token only.
where_token_exclusive(token) ==
    {v.id : v \in {w \in vlanTable : token = NoToken \/ w.id < int(token)}}

\* The ids of the rows the WHERE clause of list keeps: all rows when the
\* token is None, else those with id <= int(token).
where_token(token) ==
    {v.id : v \in {w \in vlanTable : token = NoToken \/ w.id <= int(token)}}

\* The SELECT of list with LIMIT size.
fetch_size_rows(token, size) ==
    Limit(Descending(where_token(token)), size)

\* The SELECT of list: descending ids, LIMIT size + 1.
fetch(token, size) ==
    Limit(Descending(where_token(token)), size + 1)

\* list giving the id of the last item of the page as next_token.
list_last_seen(token, size) ==
    IF Len(fetch(token, size)) > size
    THEN [items |-> SubSeq(fetch(token, size), 1, size),
          next_token |-> fetch(token, size)[size]]
    ELSE [items |-> fetch(token, size), next_token |-> NoNextToken]

\* VlansRepository.list: when the SELECT returned more than size rows the
\* last one is popped and its id is next_token.
list(token, size) ==
    IF Len(fetch(token, size)) > size
    THEN [items |-> SubSeq(fetch(token, size), 1,
                           Len(fetch(token, size)) - 1),
          next_token |-> fetch(token, size)[Len(fetch(token, size))]]
    ELSE [items |-> fetch(token, size), next_token |-> NoNextToken]

\* The call made and what it returned.
Page(token, size) ==
    [token |-> token, size |-> size, items |-> list(token, size).items,
     next_token |-> list(token, size).next_token]

\* The client after the page: it goes on with the string form of
\* next_token, or is done when next_token is absent.
Advance(seen, token, size) ==
    [state |-> IF list(token, size).next_token = NoNextToken
               THEN "done" ELSE "more",
     size |-> size,
     token |-> IF list(token, size).next_token = NoNextToken
               THEN NoToken ELSE str(list(token, size).next_token),
     seen |-> seen \o list(token, size).items]

\* Any set of stored VLANs.
InitList ==
    /\ ServiceAtRest
    /\ NetworkAtRest
    /\ vlanTable \in {{Vlan(i, FALSE) : i \in ids} : ids \in SUBSET ListIds}
    /\ ListAtRest
    /\ ComponentsAtRest

\* One call of list with any token, before any iteration.
ListAt(token, size) ==
    /\ page = NoPage
    /\ cursor.state = "start"
    /\ page' = Page(token, size)
    /\ UNCHANGED <<serviceVars, componentVars, networkVars, vlanTable, cursor,
                   stable, listCalls>>

\* The first call of an iteration: list with token None.
ListFirst(size) ==
    /\ cursor.state = "start"
    /\ page' = Page(NoToken, size)
    /\ cursor' = Advance(<<>>, NoToken, size)
    /\ stable' = {v.id : v \in vlanTable}
    /\ listCalls' = 1
    /\ UNCHANGED <<serviceVars, componentVars, networkVars, vlanTable>>

\* The next call of the iteration: list with the token of the last page.
ListFollow ==
    /\ cursor.state = "more"
    /\ page' = Page(cursor.token, cursor.size)
    /\ cursor' = Advance(cursor.seen, cursor.token, cursor.size)
    /\ listCalls' = listCalls + 1
    /\ UNCHANGED <<serviceVars, componentVars, networkVars, vlanTable, stable>>

NextList ==
    \/ \E t \in {NoToken} \cup {str(i) : i \in 7..(8 + MaxVlans)},
          z \in Sizes : ListAt(t, z)
    \/ \E z \in Sizes : ListFirst(z)
    \/ ListFollow

\* Calls of list on any stored table.
SpecList == InitList /\ [][NextList]_vars

\* Another request inserts a VLAN between two calls of list.
VlanInsert(id) ==
    /\ \A v \in vlanTable : v.id # id
    /\ vlanTable' = vlanTable \cup {Vlan(id, FALSE)}
    /\ UNCHANGED <<serviceVars, componentVars, networkVars, listVars>>

\* Another request deletes a VLAN between two calls of list; while an
\* iteration is under way the id is no longer one stored throughout it.
VlanDelete(id) ==
    /\ \E v \in vlanTable : v.id = id
    /\ vlanTable' = {v \in vlanTable : v.id # id}
    /\ stable' = IF cursor.state = "more" THEN stable \ {id} ELSE stable
    /\ UNCHANGED <<serviceVars, componentVars, networkVars, page, cursor,
                   listCalls>>

NextListConcurrent ==
    \/ \E z \in Sizes : ListFirst(z)
    \/ ListFollow
    \/ \E id \in ListIds : VlanInsert(id)
    \/ \E id \in ListIds : VlanDelete(id)

\* One iteration over list while other requests insert and delete.
SpecListConcurrent == InitList /\ [][NextListConcurrent]_vars

\* --------------------------------------------------------- service cache
\* What the cached method returns for an argument: None for argument 0, a
\* value of its own for every other argument.
Args == {0, 1, 2}
wrapped_fn(arg) == IF arg = 0 THEN None ELSE 10 + arg

\* The test of the miss: the slot of the cache holds None.
is_cache_miss_always(slot) == TRUE
is_cache_miss_never(slot) == FALSE
is_cache_miss(slot) == slot = None

\* No cache, or a cache with its slots empty, as ServiceCache.clear and
\* the construction leave them.
InitCache ==
    /\ RegionAtRest
    /\ ServiceAtRest
    /\ NetworkAtRest
    /\ vlanTable = {}
    /\ ListAtRest
    /\ cache \in {[NoCache EXCEPT !.enabled = e] : e \in BOOLEAN}
    /\ rangeSvc = NoRangeSvc
    /\ filters = NoQuery
    /\ builder = NoBuilder
    /\ secrets = NoSecrets

notCache == <<earlierVars, rangeSvc, filters, builder, secrets>>

\* wrapped, up to its first await: without a cache, or on a miss, the
\* method is called; on a hit the slot is returned.
CacheCall(u, arg) ==
    /\ cache.pending[u] = Idle
    /\ IF ~cache.enabled \/ is_cache_miss(cache.slot)
       THEN cache' =
               [cache EXCEPT
                   !.pending[u] = arg, !.last = "call", !.cleared = FALSE]
       ELSE cache' =
               [cache EXCEPT
                   !.last = "call",
                   !.cleared = FALSE,
                   !.ret = [unit |-> u, arg |-> arg, value |-> cache.slot,
                            executed |-> FALSE]]
    /\ UNCHANGED notCache

\* wrapped, after the method has returned: with a cache the value is
\* stored in the slot and the slot is returned.
CacheFnReturn(u) ==
    /\ cache.pending[u] # Idle
    /\ LET value == wrapped_fn(cache.pending[u])
           slot == IF cache.enabled THEN value ELSE cache.slot
       IN cache' =
             [cache EXCEPT
                 !.pending[u] = Idle,
                 !.slot = slot,
                 !.last = "return",
                 !.ret = [unit |-> u, arg |-> cache.pending[u],
                          value |-> IF cache.enabled THEN slot ELSE value,
                          executed |-> TRUE]]
    /\ UNCHANGED notCache

\* Another method of the service wrapped for another field of the same
\* cache object, run to its end: on a miss its result is stored.
CacheOtherMethod(attr) ==
    /\ cache.enabled
    /\ cache' =
          [cache EXCEPT
              !.others[attr] = IF is_cache_miss(@) THEN 1 ELSE @,
              !.last = "other"]
    /\ UNCHANGED notCache

\* ServiceCache.clear: every field of the cache object is None again.
clear(c) ==
    [c EXCEPT !.slot = None, !.others = [a \in OtherAttrs |-> None]]

CacheClear ==
    /\ cache.enabled
    /\ cache' = [clear(cache) EXCEPT !.last = "clear", !.cleared = TRUE]
    /\ UNCHANGED notCache

NextCache ==
    \/ \E u \in Units, arg \in Args : CacheCall(u, arg)
    \/ \E u \in Units : CacheFnReturn(u)
    \/ \E attr \in OtherAttrs : CacheOtherMethod(attr)
    \/ CacheClear

SpecCache == InitCache /\ [][NextCache]_vars

\* ------------------------------------------------------- IPRangesService
\* The resources IPRangeResourceBuilder builds: every field set, the
\* interval not empty.
RangeTypes == {"dynamic", "reserved"}
RangeAddresses == {IPv4(v) : v \in 0..MaxRangeAddr}
IPRangeResources ==
    {res \in [subnet_id : Subnets, type : RangeTypes,
              start_ip : RangeAddresses, end_ip : RangeAddresses] :
        res.start_ip.value <= res.end_ip.value}

\* Two intervals of addresses with an address in common.
intervals_overlap_same_start(a, b) ==
    a.start_ip = b.start_ip
intervals_overlap(a, b) ==
    /\ a.start_ip.version = b.start_ip.version
    /\ a.start_ip.value <= b.end_ip.value
    /\ b.start_ip.value <= a.end_ip.value

\* The stored ranges of the subnet of the resource, the range `id` apart,
\* that the interval of the resource intersects.
overlapping_ranges(id, resource) ==
    {r \in ipRangeTable :
        /\ r.id # id
        /\ r.subnet_id = resource.subnet_id
        /\ intervals_overlap(r, resource)}

\* IPRangesRepository.get_by_id.
range_by_id(id) ==
    IF \E r \in ipRangeTable : r.id = id
    THEN CHOOSE r \in ipRangeTable : r.id = id
    ELSE NoIPRange

\* A call of the repository that writes.
RepositoryCall(fn, id, resource) == [fn |-> fn, id |-> id, resource |-> resource]
NoResource ==
    [subnet_id |-> 0, type |-> "none", start_ip |-> NoIp, end_ip |-> NoIp]

\* The hooks of the service: a created or updated range is named by its id,
\* a deleted one by its subnet.
iprange_post_create_hook_by_subnet(ts, resource) ==
    register_or_update_workflow_call(
        ts, CONFIGURE_DHCP_WORKFLOW_NAME,
        ConfigureDHCPParamOf({}, {}, {resource.subnet_id}),
        merge_configure_dhcp_param, FALSE)
iprange_post_create_hook(ts, resource) ==
    register_or_update_workflow_call(
        ts, CONFIGURE_DHCP_WORKFLOW_NAME,
        ConfigureDHCPParamOf({}, {resource.id}, {}),
        merge_configure_dhcp_param, FALSE)

iprange_post_update_hook(ts, old_resource, updated_resource) ==
    register_or_update_workflow_call(
        ts, CONFIGURE_DHCP_WORKFLOW_NAME,
        ConfigureDHCPParamOf({}, {updated_resource.id}, {}),
        merge_configure_dhcp_param, FALSE)

iprange_post_delete_hook_by_range_id(ts, resource) ==
    register_or_update_workflow_call(
        ts, CONFIGURE_DHCP_WORKFLOW_NAME,
        ConfigureDHCPParamOf({}, {resource.id}, {}),
        merge_configure_dhcp_param, FALSE)
iprange_post_delete_hook(ts, resource) ==
    register_or_update_workflow_call(
        ts, CONFIGURE_DHCP_WORKFLOW_NAME,
        ConfigureDHCPParamOf({}, {}, {resource.subnet_id}),
        merge_configure_dhcp_param, FALSE)

\* The snippets left by the delete keyed by the id of a range.
delete_snippets_with_iprange_id(snippets, iprange_id) ==
    {d \in snippets : d.iprange_id # iprange_id}

\* The TemporalService at the start of a call of the service.
RangeCallStart(ts) == [ts EXCEPT !.calls = <<>>, !.registered = {}]

InitIPRanges ==
    /\ RegionAtRest
    /\ ServiceAtRest
    /\ subnetTable = {}
    /\ ipRangeTable = {}
    /\ deletion = NoDeletion
    /\ answer = NoAnswer
    /\ vlanTable = {}
    /\ ListAtRest
    /\ cache = NoCache
    /\ rangeSvc = NoRangeSvc
    /\ filters = NoQuery
    /\ builder = NoBuilder
    /\ secrets = NoSecrets

notIPRanges ==
    <<serviceVars, subnetTable, deletion, answer, vlanTable, listVars,
      cache, filters, builder, secrets, regionVars>>

\* IPRangesService.create: an interval that intersects a stored range of
\* the subnet is rejected before the repository is called; otherwise the
\* repository creates the row and post_create_hook registers the workflow.
IPRangeCreate(resource) ==
    /\ rangeSvc.opsDone < MaxRangeOps
    /\ rangeSvc.nextId <= MaxRangeId
    /\ LET ts == RangeCallStart(rangeSvc.temporal)
           created == IPRange(rangeSvc.nextId, resource.subnet_id,
                              resource.type, resource.start_ip,
                              resource.end_ip)
       IN IF overlapping_ranges(0, resource) # {}
          THEN /\ rangeSvc' =
                     [rangeSvc EXCEPT
                         !.temporal = ts,
                         !.opsDone = @ + 1,
                         !.last = [NoRangeCall EXCEPT
                                      !.op = "create",
                                      !.outcome = "rejected"]]
               /\ UNCHANGED ipRangeTable
          ELSE /\ ipRangeTable' = ipRangeTable \cup {created}
               /\ rangeSvc' =
                     [rangeSvc EXCEPT
                         !.nextId = @ + 1,
                         !.temporal = iprange_post_create_hook(ts, created),
                         !.opsDone = @ + 1,
                         !.last = [NoRangeCall EXCEPT
                                      !.op = "create",
                                      !.id = created.id,
                                      !.outcome = "ok",
                                      !.result = created,
                                      !.repository =
                                          <<RepositoryCall("create", 0,
                                                           resource)>>]]
    /\ UNCHANGED notIPRanges

\* IPRangesService.update_by_id: BaseService.update_by_id with the check of
\* the interval and post_update_hook.
IPRangeUpdateById(id, resource) ==
    /\ rangeSvc.opsDone < MaxRangeOps
    /\ LET ts == RangeCallStart(rangeSvc.temporal)
           existing_resource == range_by_id(id)
           updated_resource == IPRange(id, resource.subnet_id, resource.type,
                                       resource.start_ip, resource.end_ip)
           failed(outcome) ==
               /\ rangeSvc' =
                     [rangeSvc EXCEPT
                         !.temporal = ts,
                         !.opsDone = @ + 1,
                         !.last = [NoRangeCall EXCEPT
                                      !.op = "update_by_id",
                                      !.id = id,
                                      !.outcome = outcome]]
               /\ UNCHANGED ipRangeTable
       IN IF existing_resource = NoIPRange
          THEN failed("not_found")
          ELSE IF overlapping_ranges(id, resource) # {}
          THEN failed("rejected")
          ELSE /\ ipRangeTable' =
                     (ipRangeTable \ {existing_resource})
                         \cup {updated_resource}
               /\ rangeSvc' =
                     [rangeSvc EXCEPT
                         !.temporal =
                             iprange_post_update_hook(ts, existing_resource,
                                                      updated_resource),
                         !.opsDone = @ + 1,
                         !.last = [NoRangeCall EXCEPT
                                      !.op = "update_by_id",
                                      !.id = id,
                                      !.outcome = "ok",
                                      !.result = updated_resource,
                                      !.repository =
                                          <<RepositoryCall("update_by_id", id,
                                                           resource)>>]]
    /\ UNCHANGED notIPRanges

\* IPRangesService.delete_by_id: BaseService.delete_by_id with the delete of
\* the snippets of the range and post_delete_hook.
IPRangeDeleteById(id) ==
    /\ rangeSvc.opsDone < MaxRangeOps
    /\ LET ts == RangeCallStart(rangeSvc.temporal)
           resource == range_by_id(id)
       IN IF resource = NoIPRange
          THEN /\ rangeSvc' =
                     [rangeSvc EXCEPT
                         !.temporal = ts,
                         !.opsDone = @ + 1,
                         !.last = [NoRangeCall EXCEPT
                                      !.op = "delete_by_id",
                                      !.id = id,
                                      !.outcome = "none"]]
               /\ UNCHANGED ipRangeTable
          ELSE /\ ipRangeTable' = ipRangeTable \ {resource}
               /\ rangeSvc' =
                     [rangeSvc EXCEPT
                         !.temporal = iprange_post_delete_hook(ts, resource),
                         !.snippets =
                             delete_snippets_with_iprange_id(@, resource.id),
                         !.opsDone = @ + 1,
                         !.last = [NoRangeCall EXCEPT
                                      !.op = "delete_by_id",
                                      !.id = id,
                                      !.outcome = "ok",
                                      !.result = resource,
                                      !.repository =
                                          <<RepositoryCall("delete_by_id", id,
                                                           NoResource)>>,
                                      !.snippet_deletes = <<resource.id>>,
                                      !.deleted_snippets =
                                          {d \in rangeSvc.snippets :
                                              d.iprange_id = resource.id}]]
    /\ UNCHANGED notIPRanges

\* A DHCP snippet is attached to a stored range.
CreateDhcpSnippet(iprange_id) ==
    /\ Cardinality(rangeSvc.snippets) < MaxSnippets
    /\ range_by_id(iprange_id) # NoIPRange
    /\ LET id == CHOOSE i \in 1..MaxSnippets :
                     \A d \in rangeSvc.snippets : d.id # i
       IN rangeSvc' =
             [rangeSvc EXCEPT
                 !.snippets = @ \cup {[id |-> id, iprange_id |-> iprange_id]}]
    /\ UNCHANGED <<ipRangeTable, notIPRanges>>

\* The request ends: its pending workflow calls are sent and forgotten.
IPRangeCommit ==
    /\ rangeSvc.temporal.post_commit_workflows # <<>>
    /\ rangeSvc' =
          [rangeSvc EXCEPT !.temporal = NewTemporalService,
                           !.last = NoRangeCall]
    /\ UNCHANGED <<ipRangeTable, notIPRanges>>

NextIPRanges ==
    \/ \E resource \in IPRangeResources : IPRangeCreate(resource)
    \/ \E id \in RangeIds, resource \in IPRangeResources :
          IPRangeUpdateById(id, resource)
    \/ \E id \in RangeIds : IPRangeDeleteById(id)
    \/ \E id \in RangeIds : CreateDhcpSnippet(id)
    \/ IPRangeCommit

SpecIPRanges == InitIPRanges /\ [][NextIPRanges]_vars

\* ---------------------------------------------------------------- clauses
\* Tables, columns, the equality of a column with a value or a column, and
\* join(left, right, onclause).
ReservedIPTable == "maasserver_reservedip"
IPRangeTable == "maasserver_iprange"
SubnetTable == "maasserver_subnet"
VlanTable == "maasserver_vlan"
Tables == {ReservedIPTable, IPRangeTable, SubnetTable, VlanTable}

Column(table, name) == <<table, name>>
NoColumn == <<"", "">>
eq(column, value) ==
    [op |-> "eq", column |-> column, value |-> value, args |-> <<>>]
on(a, b) == [a |-> a, b |-> b]
join(left, right, onclause) ==
    [left |-> left, right |-> right, onclause |-> onclause]

Clause(condition, joins) == [condition |-> condition, joins |-> joins]

\* ReservedIPsClauseFactory.
ReservedIPs_with_subnet_id(subnet_id) ==
    Clause(eq(Column(ReservedIPTable, "subnet_id"), subnet_id), <<>>)

ReservedIPs_with_vlan_id(vlan_id) ==
    Clause(eq(Column(SubnetTable, "vlan_id"), vlan_id),
           <<join(ReservedIPTable, SubnetTable,
                  on(Column(ReservedIPTable, "subnet_id"),
                     Column(SubnetTable, "id")))>>)

ReservedIPs_with_fabric_id(fabric_id) ==
    Clause(eq(Column(VlanTable, "fabric_id"), fabric_id),
           <<join(ReservedIPTable, SubnetTable,
                  on(Column(ReservedIPTable, "subnet_id"),
                     Column(SubnetTable, "id"))),
             join(VlanTable, SubnetTable,
                  on(Column(VlanTable, "id"),
                     Column(SubnetTable, "vlan_id")))>>)

\* IPRangeClauseFactory.
IPRange_with_subnet_id(subnet_id) ==
    Clause(eq(Column(IPRangeTable, "subnet_id"), subnet_id), <<>>)

IPRange_with_vlan_id(vlan_id) ==
    Clause(eq(Column(SubnetTable, "vlan_id"), vlan_id),
           <<join(IPRangeTable, SubnetTable,
                  on(Column(SubnetTable, "id"),
                     Column(IPRangeTable, "subnet_id")))>>)

IPRange_with_fabric_id(fabric_id) ==
    Clause(eq(Column(VlanTable, "fabric_id"), fabric_id),
           <<join(IPRangeTable, SubnetTable,
                  on(Column(SubnetTable, "id"),
                     Column(IPRangeTable, "subnet_id"))),
             join(SubnetTable, VlanTable,
                  on(Column(SubnetTable, "vlan_id"),
                     Column(VlanTable, "id")))>>)

\* SubnetClauseFactory.
Subnet_with_vlan_id(vlan_id) ==
    Clause(eq(Column(SubnetTable, "vlan_id"), vlan_id), <<>>)

Subnet_with_fabric_id(fabric_id) ==
    Clause(eq(Column(VlanTable, "fabric_id"), fabric_id),
           <<join(SubnetTable, VlanTable,
                  on(Column(SubnetTable, "vlan_id"),
                     Column(VlanTable, "id")))>>)

\* The clause a factory of the entity builds for a filter and a value.
FilterNames == {"with_subnet_id", "with_vlan_id", "with_fabric_id"}
Entities == {ReservedIPTable, IPRangeTable, SubnetTable}
FiltersOf(entity) ==
    IF entity = SubnetTable
    THEN {"with_vlan_id", "with_fabric_id"}
    ELSE FilterNames
ClauseOf(entity, name, value) ==
    CASE entity = ReservedIPTable /\ name = "with_subnet_id" ->
            ReservedIPs_with_subnet_id(value)
      [] entity = ReservedIPTable /\ name = "with_vlan_id" ->
            ReservedIPs_with_vlan_id(value)
      [] entity = ReservedIPTable /\ name = "with_fabric_id" ->
            ReservedIPs_with_fabric_id(value)
      [] entity = IPRangeTable /\ name = "with_subnet_id" ->
            IPRange_with_subnet_id(value)
      [] entity = IPRangeTable /\ name = "with_vlan_id" ->
            IPRange_with_vlan_id(value)
      [] entity = IPRangeTable /\ name = "with_fabric_id" ->
            IPRange_with_fabric_id(value)
      [] entity = SubnetTable /\ name = "with_vlan_id" ->
            Subnet_with_vlan_id(value)
      [] entity = SubnetTable /\ name = "with_fabric_id" ->
            Subnet_with_fabric_id(value)

\* The joins of the clauses one after another, a join of the same two
\* tables as an earlier one left out.
same_tables(a, b) == a.left = b.left /\ a.right = b.right

RECURSIVE unique_joins(_, _)
unique_joins(kept, joins) ==
    IF joins = <<>>
    THEN kept
    ELSE IF \E i \in DOMAIN kept : same_tables(kept[i], Head(joins))
         THEN unique_joins(kept, Tail(joins))
         ELSE unique_joins(Append(kept, Head(joins)), Tail(joins))

RECURSIVE all_joins(_)
all_joins(clauses) ==
    IF clauses = <<>>
    THEN <<>>
    ELSE Head(clauses).joins \o all_joins(Tail(clauses))

combine(operator, clauses) ==
    Clause([op |-> operator, column |-> NoColumn, value |-> 0,
            args |-> [i \in DOMAIN clauses |-> clauses[i].condition]],
           unique_joins(<<>>, all_joins(clauses)))
and_clauses(clauses) == combine("and", clauses)
or_clauses(clauses) == combine("or", clauses)

\* ---------------------------------------------------------------- queries
\* A row of any of the tables; a column a table does not have is 0.
Row(id, subnet_id, vlan_id, fabric_id) ==
    [id |-> id, subnet_id |-> subnet_id, vlan_id |-> vlan_id,
     fabric_id |-> fabric_id]
Col(row, name) ==
    CASE name = "id" -> row.id
      [] name = "subnet_id" -> row.subnet_id
      [] name = "vlan_id" -> row.vlan_id
      [] name = "fabric_id" -> row.fabric_id

FilterIds == 1..MaxFilterId

\* The databases queried: every VLAN on some fabric, every subnet on some
\* VLAN, every reserved IP and every IP range in some subnet.
Databases ==
    {[vlans |-> {Row(i, 0, 0, f[i]) : i \in FilterIds},
      subnets |-> {Row(i, 0, v[i], 0) : i \in FilterIds},
      reservedips |-> {Row(i, r[i], 0, 0) : i \in FilterIds},
      ipranges |-> {Row(i, r[i], 0, 0) : i \in FilterIds}] :
        f \in [FilterIds -> FilterIds], v \in [FilterIds -> FilterIds],
        r \in [FilterIds -> FilterIds]}

RowsOf(db, table) ==
    CASE table = ReservedIPTable -> db.reservedips
      [] table = IPRangeTable -> db.ipranges
      [] table = SubnetTable -> db.subnets
      [] table = VlanTable -> db.vlans

\* A SELECT: the tables of its FROM in the order they were added, the ON
\* conditions of its joins, and whether it is valid SQL.
select(entity) == [from |-> <<entity>>, on |-> {}, valid |-> TRUE]

\* One join added to the statement: the right table is joined to the left
\* one; a left table the statement does not have starts a FROM element of
\* its own; a table named twice makes the statement invalid.
join_from(stmt, j) ==
    LET from == {stmt.from[i] : i \in DOMAIN stmt.from}
    IN IF j.right \in from
       THEN [stmt EXCEPT !.valid = FALSE]
       ELSE [stmt EXCEPT
                !.from = IF j.left \in from
                         THEN Append(@, j.right)
                         ELSE @ \o <<j.left, j.right>>,
                !.on = @ \cup {j.onclause}]

RECURSIVE add_joins(_, _)
add_joins(stmt, joins) ==
    IF joins = <<>>
    THEN stmt
    ELSE add_joins(join_from(stmt, Head(joins)), Tail(joins))

\* QuerySpec.enrich_stmt: the joins of the clause; its condition is applied
\* when the statement is executed.
enrich_stmt(stmt, clause) == add_joins(stmt, clause.joins)

\* The tables a condition names.
condition_tables(condition) ==
    IF condition.op = "eq"
    THEN {condition.column[1]}
    ELSE {condition.args[i].column[1] : i \in DOMAIN condition.args}

holds_eq(condition, asg) ==
    Col(asg[condition.column[1]], condition.column[2]) = condition.value
holds(condition, asg) ==
    CASE condition.op = "eq" -> holds_eq(condition, asg)
      [] condition.op = "and" ->
            \A i \in DOMAIN condition.args : holds_eq(condition.args[i], asg)
      [] condition.op = "or" ->
            \E i \in DOMAIN condition.args : holds_eq(condition.args[i], asg)

\* The ids of the rows of the entity the statement selects: a table the
\* condition names and the FROM lacks is added to the FROM unjoined.
execute(db, entity, clause) ==
    LET stmt == enrich_stmt(select(entity), clause)
        tables == {stmt.from[i] : i \in DOMAIN stmt.from}
                     \cup condition_tables(clause.condition)
        candidates == UNION {RowsOf(db, t) : t \in tables}
        matches ==
            {asg \in [tables -> candidates] :
                /\ \A t \in tables : asg[t] \in RowsOf(db, t)
                /\ \A c \in stmt.on :
                      Col(asg[c.a[1]], c.a[2]) = Col(asg[c.b[1]], c.b[2])
                /\ holds(clause.condition, asg)}
    IN [valid |-> stmt.valid,
        from |-> stmt.from,
        ids |-> IF stmt.valid THEN {asg[entity].id : asg \in matches} ELSE {}]

\* The filters a list request combines, each with its value.
FilterLists(entity) ==
    {<<a>> : a \in FiltersOf(entity)}
    \cup {<<a, b>> : a, b \in FiltersOf(entity)}
    \cup {<<"with_fabric_id", "with_subnet_id", "with_vlan_id">> :
             e \in {entity} \ {SubnetTable}}

clauses_of(entity, names, values) ==
    [i \in DOMAIN names |-> ClauseOf(entity, names[i], values[i])]

InitQueries ==
    /\ RegionAtRest
    /\ ServiceAtRest
    /\ NetworkAtRest
    /\ vlanTable = {}
    /\ ListAtRest
    /\ cache = NoCache
    /\ rangeSvc = NoRangeSvc
    /\ filters \in {[NoQuery EXCEPT !.db = db] : db \in Databases}
    /\ builder = NoBuilder
    /\ secrets = NoSecrets

notQueries == <<earlierVars, cache, rangeSvc, builder, secrets>>

\* The rows of an entity are listed with the clause of one filter.
ListWhere(entity, name, value) ==
    /\ filters.entity = "none"
    /\ LET clause == ClauseOf(entity, name, value)
       IN filters' =
             [filters EXCEPT
                 !.entity = entity,
                 !.names = <<name>>,
                 !.values = <<value>>,
                 !.joins = clause.joins,
                 !.result = execute(filters.db, entity, clause)]
    /\ UNCHANGED notQueries

\* The rows of an entity are listed with clauses combined by and_clauses.
ListWhereAnd(entity, names, values) ==
    /\ filters.entity = "none"
    /\ LET clause == and_clauses(clauses_of(entity, names, values))
       IN filters' =
             [filters EXCEPT
                 !.entity = entity,
                 !.combinator = "and",
                 !.names = names,
                 !.values = values,
                 !.joins = clause.joins,
                 !.result = execute(filters.db, entity, clause)]
    /\ UNCHANGED notQueries

\* The rows of an entity are listed with clauses combined by or_clauses.
ListWhereOr(entity, names, values) ==
    /\ filters.entity = "none"
    /\ LET clause == or_clauses(clauses_of(entity, names, values))
       IN filters' =
             [filters EXCEPT
                 !.entity = entity,
                 !.combinator = "or",
                 !.names = names,
                 !.values = values,
                 !.joins = clause.joins,
                 !.result = execute(filters.db, entity, clause)]
    /\ UNCHANGED notQueries

NextQueries ==
    \/ \E entity \in Entities :
          \E name \in FiltersOf(entity), value \in FilterIds :
              ListWhere(entity, name, value)
    \/ \E entity \in Entities :
          \E names \in FilterLists(entity) :
              \E values \in [DOMAIN names -> FilterIds] :
                  ListWhereAnd(entity, names, values)
    \/ \E entity \in Entities :
          \E names \in FilterLists(entity) :
              \E values \in [DOMAIN names -> FilterIds] :
                  ListWhereOr(entity, names, values)

SpecQueries == InitQueries /\ [][NextQueries]_vars

\* ------------------------------------------------- SubnetResourceBuilder
\* The registry of boot methods: name, arch octet ("" for none) and whether
\* the method has an HTTP path prefix.
BootMethod(name, arch_octet, path_prefix_http) ==
    [name |-> name, arch_octet |-> arch_octet,
     path_prefix_http |-> path_prefix_http]
NoBootMethod == BootMethod("", "", FALSE)
BootMethodRegistry ==
    {BootMethod("pxe", "00:00", FALSE),
     BootMethod("uefi_amd64_http", "00:10", TRUE),
     BootMethod("windows", "", FALSE)}

\* What callers pass: names of boot methods, arch octets written 0x.., and
\* a name the registry does not have.
Archs == {"pxe", "0x00", "uefi_amd64_http", "0x10", "windows", "bogus"}

\* disabled_arch.replace("0x", "00:").
replace_0x(disabled_arch) ==
    CASE disabled_arch = "0x00" -> "00:00"
      [] disabled_arch = "0x10" -> "00:10"
      [] OTHER -> disabled_arch

find_boot_method_by_arch_or_octet(arch, octet) ==
    LET found == {m \in BootMethodRegistry :
                     m.name = arch \/ (octet # "" /\ m.arch_octet = octet)}
    IN IF found = {} THEN NoBootMethod ELSE CHOOSE m \in found : TRUE

INVALID_ARGUMENT_VIOLATION_TYPE == "InvalidArgument"
ValidationException ==
    [exception |-> "ValidationException",
     type |-> INVALID_ARGUMENT_VIOLATION_TYPE]

\* The loop over the architectures: the names found so far, the entries
\* still to look up, and the outcome: the request with the value set, or
\* the request as it was and the exception of the first entry refused.
RECURSIVE disabled_boot_method_names(_, _, _)
disabled_boot_method_names(request, names, archs) ==
    IF archs = <<>>
    THEN [request |-> [is_set |-> TRUE,
                       disabled_boot_architectures |-> names],
          error |-> NoError, rejected |-> ""]
    ELSE LET disabled_arch == Head(archs)
             boot_method ==
                 find_boot_method_by_arch_or_octet(
                     disabled_arch, replace_0x(disabled_arch))
         IN IF \/ boot_method = NoBootMethod
               \/ (boot_method.arch_octet = ""
                      /\ ~boot_method.path_prefix_http)
            THEN [request |-> request, error |-> ValidationException,
                  rejected |-> disabled_arch]
            ELSE disabled_boot_method_names(
                     request, Append(names, boot_method.name), Tail(archs))

RECURSIVE known_names(_, _)
known_names(names, archs) ==
    IF archs = <<>>
    THEN names
    ELSE LET boot_method ==
                 find_boot_method_by_arch_or_octet(
                     Head(archs), replace_0x(Head(archs)))
         IN known_names(
                IF boot_method = NoBootMethod
                THEN names
                ELSE Append(names, boot_method.name),
                Tail(archs))

\* A builder that leaves out what it does not know and never raises.
with_disabled_boot_architectures_lenient(request, archs) ==
    [request |-> [is_set |-> TRUE,
                  disabled_boot_architectures |-> known_names(<<>>, archs)],
     error |-> NoError, rejected |-> ""]

with_disabled_boot_architectures(request, disabled_boot_architectures) ==
    disabled_boot_method_names(request, <<>>, disabled_boot_architectures)

ArchLists == UNION {[1..n -> Archs] : n \in 0..MaxArchs}

InitBuilder ==
    /\ RegionAtRest
    /\ ServiceAtRest
    /\ NetworkAtRest
    /\ vlanTable = {}
    /\ ListAtRest
    /\ cache = NoCache
    /\ rangeSvc = NoRangeSvc
    /\ filters = NoQuery
    /\ builder = [NoBuilder EXCEPT !.pc = "building"]
    /\ secrets = NoSecrets

notBuilder == <<earlierVars, cache, rangeSvc, filters, secrets>>

\* A caller sets the disabled boot architectures on the builder; the
\* exception ends what the caller was doing.
WithDisabledBootArchitectures(archs) ==
    /\ builder.pc = "building"
    /\ LET out == with_disabled_boot_architectures(builder.request, archs)
       IN builder' =
             [builder EXCEPT
                 !.pc = IF out.error = NoError THEN "building" ELSE "raised",
                 !.request = out.request,
                 !.args = archs,
                 !.error = out.error,
                 !.rejected = out.rejected]
    /\ UNCHANGED notBuilder

\* The caller builds the resource and passes it to the repository.
BuildAndCreate ==
    /\ builder.pc = "building"
    /\ builder' =
          [builder EXCEPT !.pc = "created",
                          !.repository = Append(@, builder.request)]
    /\ UNCHANGED notBuilder

NextBuilder ==
    \/ \E archs \in ArchLists : WithDisabledBootArchitectures(archs)
    \/ BuildAndCreate

SpecBuilder == InitBuilder /\ [][NextBuilder]_vars

\* --------------------------------------------------- SecretsServiceFactory
VaultSecretsService == "VaultSecretsService"
LocalSecretsStorageService == "LocalSecretsStorageService"

\* The value of the vault_enabled configuration, False when it is not set.
vault_enabled_now(config) == IF config = "unset" THEN "False" ELSE config

\* The flag produce goes by: the cached one, or on the first produce the
\* configuration value read then.
flag_for_produce_uncached(flag, config) == vault_enabled_now(config)
flag_for_produce(flag, config) ==
    IF flag = "None" THEN vault_enabled_now(config) ELSE flag

service_for(flag) ==
    IF flag = "True" THEN VaultSecretsService ELSE LocalSecretsStorageService

InitSecrets ==
    /\ RegionAtRest
    /\ ServiceAtRest
    /\ NetworkAtRest
    /\ vlanTable = {}
    /\ ListAtRest
    /\ cache = NoCache
    /\ rangeSvc = NoRangeSvc
    /\ filters = NoQuery
    /\ builder = NoBuilder
    /\ secrets \in {[NoSecrets EXCEPT !.vault_enabled = c] :
                       c \in {"unset", "True", "False"}}

notSecrets == <<earlierVars, cache, rangeSvc, filters, builder>>

\* SecretsServiceFactory.produce.
Produce(u) ==
    /\ secrets.produced < MaxProduces
    /\ LET flag == flag_for_produce(secrets.IS_VAULT_ENABLED,
                                    secrets.vault_enabled)
       IN secrets' =
             [secrets EXCEPT
                 !.IS_VAULT_ENABLED = flag,
                 !.service[u] = service_for(flag),
                 !.produced = @ + 1,
                 !.reads = IF secrets.IS_VAULT_ENABLED = "None"
                           THEN @ + 1 ELSE @]
    /\ UNCHANGED notSecrets

\* SecretsServiceFactory.clear.
SecretsClear ==
    /\ secrets.IS_VAULT_ENABLED # "None"
    /\ secrets' = [secrets EXCEPT !.IS_VAULT_ENABLED = "None"]
    /\ UNCHANGED notSecrets

\* The vault_enabled configuration is changed.
SetVaultEnabled(value) ==
    /\ secrets.vault_enabled # value
    /\ secrets' = [secrets EXCEPT !.vault_enabled = value]
    /\ UNCHANGED notSecrets

NextSecrets ==
    \/ \E u \in Units : Produce(u)
    \/ SecretsClear
    \/ \E value \in {"True", "False"} : SetVaultEnabled(value)

SpecSecrets == InitSecrets /\ [][NextSecrets]_vars

\* ---------------------------------------------------------- FileBackedID
\* Strings are sequences of the characters " ", "a" and "b", at most
\* MaxText long; NoneStr is Python's None and NoFile a path that does not
\* exist.
Chars == {" ", "a", "b"}
Texts == UNION {[1..n -> Chars] : n \in 0..MaxText}
NoneStr == <<"None">>
NoFile == <<"absent">>
Threads == {"t1", "t2"}

\* str.strip: leading and trailing whitespace removed.
RECURSIVE lstrip(_)
lstrip(s) == IF s # <<>> /\ Head(s) = " " THEN lstrip(Tail(s)) ELSE s
RECURSIVE rstrip(_)
rstrip(s) ==
    IF s # <<>> /\ s[Len(s)] = " "
    THEN rstrip(SubSeq(s, 1, Len(s) - 1)) ELSE s
strip(s) == rstrip(lstrip(s))

\* FileBackedID._normalise_value: a non-empty value is stripped; None and
\* the empty result become None.
normalise_value(value) ==
    IF value = NoneStr \/ value = <<>> THEN NoneStr
    ELSE IF strip(value) = <<>> THEN NoneStr ELSE strip(value)

\* threading.Lock: a thread enters `with self._lock` when no thread holds
\* the lock.
can_acquire_always(lock) == TRUE
can_acquire(lock) == lock = "free"

\* A FileBackedID just constructed, the file absent or left by an earlier
\* process with any content; reg is the value the file stands for,
\* padded and regPadded tell whether a set was given a value that
\* normalising changed.
InitFileId ==
    /\ ServiceAtRest
    /\ NetworkAtRest
    /\ vlanTable = {}
    /\ ListAtRest
    /\ cache = NoCache
    /\ rangeSvc = NoRangeSvc
    /\ filters = NoQuery
    /\ builder = NoBuilder
    /\ secrets = NoSecrets
    /\ notifications = NoNotifications
    /\ startup = NoStartUp
    /\ \E file \in Texts \cup {NoFile} :
          fileId =
             [pc |-> "run", file |-> file, value |-> NoneStr,
              lock |-> "free",
              at |-> [t \in Threads |-> "idle"],
              local |-> [t \in Threads |-> NoneStr],
              reg |-> IF file = NoFile THEN NoneStr
                      ELSE normalise_value(file),
              padded |-> [t \in Threads |-> FALSE],
              regPadded |-> FALSE]

notFileId ==
    <<serviceVars, networkVars, vlanTable, listVars, cache, rangeSvc,
      filters, builder, secrets, notifications, startup>>

\* set(value), before the lock: the value is normalised.
FileIdSetCall(t, value) ==
    /\ fileId.at[t] = "idle"
    /\ fileId' = [fileId EXCEPT
                     !.at[t] = "set_wait",
                     !.local[t] = normalise_value(value),
                     !.padded[t] = value \notin {NoneStr, normalise_value(value)}]
    /\ UNCHANGED notFileId

\* get(), before the lock.
FileIdGetCall(t) ==
    /\ fileId.at[t] = "idle"
    /\ fileId' = [fileId EXCEPT !.at[t] = "get_wait"]
    /\ UNCHANGED notFileId

\* `with self._lock` entered.
FileIdAcquire(t) ==
    /\ fileId.at[t] \in {"set_wait", "get_wait"}
    /\ can_acquire(fileId.lock)
    /\ fileId' = [fileId EXCEPT
                     !.lock = t,
                     !.at[t] = IF @ = "set_wait" THEN "set_locked"
                               ELSE "get_locked"]
    /\ UNCHANGED notFileId

\* set under the lock: atomic_delete (a missing file is no error) when the
\* value is None, else atomic_write of the value.
FileIdSetFile(t) ==
    /\ fileId.at[t] = "set_locked"
    /\ fileId' = [fileId EXCEPT
                     !.file = IF fileId.local[t] = NoneStr THEN NoFile
                              ELSE fileId.local[t],
                     !.at[t] = "set_written"]
    /\ UNCHANGED notFileId

\* set under the lock: self._value = value, then the lock is released and
\* set returns.
FileIdSetValue(t) ==
    /\ fileId.at[t] = "set_written"
    /\ fileId' = [fileId EXCEPT
                     !.value = fileId.local[t],
                     !.reg = fileId.local[t],
                     !.regPadded = fileId.padded[t],
                     !.lock = IF @ = t THEN "free" ELSE @,
                     !.at[t] = "idle"]
    /\ UNCHANGED notFileId

\* get under the lock: the cached value when there is one; else None when
\* the file does not exist; else the file is read and normalised.
FileIdGetRead(t) ==
    /\ fileId.at[t] = "get_locked"
    /\ IF fileId.value # NoneStr /\ fileId.value # <<>>
       THEN fileId' = [fileId EXCEPT
                          !.local[t] = fileId.value, !.at[t] = "get_return"]
       ELSE IF fileId.file = NoFile
       THEN fileId' = [fileId EXCEPT
                          !.local[t] = NoneStr, !.at[t] = "get_return"]
       ELSE fileId' = [fileId EXCEPT
                          !.local[t] = normalise_value(fileId.file),
                          !.at[t] = "get_read"]
    /\ UNCHANGED notFileId

\* get under the lock: self._value = value; return self._value.
FileIdGetValue(t) ==
    /\ fileId.at[t] = "get_read"
    /\ fileId' = [fileId EXCEPT
                     !.value = fileId.local[t], !.at[t] = "get_return"]
    /\ UNCHANGED notFileId

\* get returns: the lock is released.
FileIdGetReturn(t) ==
    /\ fileId.at[t] = "get_return"
    /\ fileId' = [fileId EXCEPT
                     !.lock = IF @ = t THEN "free" ELSE @,
                     !.at[t] = "idle"]
    /\ UNCHANGED notFileId

NextFileId ==
    \/ \E t \in Threads, value \in Texts \cup {NoneStr} :
          FileIdSetCall(t, value)
    \/ \E t \in Threads : FileIdGetCall(t)
    \/ \E t \in Threads : FileIdAcquire(t)
    \/ \E t \in Threads : FileIdSetFile(t)
    \/ \E t \in Threads : FileIdSetValue(t)
    \/ \E t \in Threads : FileIdGetRead(t)
    \/ \E t \in Threads : FileIdGetValue(t)
    \/ \E t \in Threads : FileIdGetReturn(t)

SpecFileId == InitFileId /\ [][NextFileId]_vars

\* ------------------------------------------------ deprecation notifications
\* DEPRECATIONS: the one known notice, NO_ALL_MODE, has id MD1. MD0 is the
\* id of a notice of an earlier release, found only in stored idents.
DEPRECATIONS == {"MD1"}
Kinds == <<"users", "admins">>
SnapModes == {"all", "region", "none"}
Snaps == [running_in_snap : BOOLEAN, mode : SnapModes]

\* get_deprecations: NO_ALL_MODE is active in a snap whose mode is "all".
get_deprecations(snap) ==
    IF snap.running_in_snap /\ snap.mode = "all" THEN <<"MD1">> ELSE <<>>

\* f"deprecation_{deprecation.id}_{kind}", and an ident of another sort.
dep_ident(id, kind) == <<"deprecation_", id, "_", kind>>
OtherIdent == <<"upgrade_", "3.5">>
startswith(ident, prefix) == ident # <<>> /\ Head(ident) = prefix

\* A row of the Notification table.
Notification(id, ident, kind) ==
    [id |-> id, ident |-> ident, category |-> "warning",
     dismissable |-> FALSE, users |-> kind = "users",
     admins |-> kind = "admins"]

\* The idents the loop of sync_deprecation_notifications goes through, in
\* its order.
RECURSIVE wanted_idents(_)
wanted_idents(deprecations) ==
    IF deprecations = <<>> THEN <<>>
    ELSE <<dep_ident(Head(deprecations), Kinds[1]),
           dep_ident(Head(deprecations), Kinds[2])>>
         \o wanted_idents(Tail(deprecations))

\* The loop: an ident found in `notifications` is removed from that set
\* and nothing is saved; for any other a Notification is saved.
RECURSIVE sync_loop(_, _, _, _)
sync_loop(idents, found, table, next_id) ==
    IF idents = <<>>
    THEN [notifications |-> found, table |-> table, next_id |-> next_id]
    ELSE IF Head(idents) \in found
    THEN sync_loop(Tail(idents), found \ {Head(idents)}, table, next_id)
    ELSE sync_loop(Tail(idents), found,
                   table \cup {Notification(next_id, Head(idents),
                                            Head(idents)[4])},
                   next_id + 1)

\* The rows the final delete removes: those whose ident is left in
\* `notifications`.
delete_every_found(table, found, left) == {r \in table : r.ident \in found}
delete_other(table, found, left) == {r \in table : r.ident \in left}

\* sync_deprecation_notifications on a table.
sync_deprecation_notifications(table, next_id, snap) ==
    LET found ==
            {r.ident : r \in {x \in table :
                                 startswith(x.ident, "deprecation_")}}
        after == sync_loop(wanted_idents(get_deprecations(snap)), found,
                           table, next_id)
    IN [table |-> after.table
                     \ delete_other(after.table, found, after.notifications),
        next_id |-> after.next_id]

\* The tables found at start: any of these idents, each stored once.
SeedIdents ==
    <<dep_ident("MD1", "users"), dep_ident("MD1", "admins"),
      dep_ident("MD0", "users"), dep_ident("MD0", "admins"), OtherIdent>>
SeedTables ==
    {{Notification(i, SeedIdents[i],
                   IF Len(SeedIdents[i]) = 4 THEN SeedIdents[i][4]
                   ELSE "users") : i \in chosen} :
        chosen \in SUBSET (1..Len(SeedIdents))}

InitNotifications ==
    /\ ServiceAtRest
    /\ NetworkAtRest
    /\ vlanTable = {}
    /\ ListAtRest
    /\ cache = NoCache
    /\ rangeSvc = NoRangeSvc
    /\ filters = NoQuery
    /\ builder = NoBuilder
    /\ secrets = NoSecrets
    /\ fileId = NoFileId
    /\ startup = NoStartUp
    /\ \E table \in SeedTables, snap \in Snaps :
          notifications =
             [pc |-> "run", table |-> table,
              next_id |-> Len(SeedIdents) + 1, snap |-> snap,
              syncs |-> 0, last |-> "none", before |-> {}]

notNotifications ==
    <<serviceVars, networkVars, vlanTable, listVars, cache, rangeSvc,
      filters, builder, secrets, fileId, startup>>

\* One call of sync_deprecation_notifications.
SyncDeprecationNotifications ==
    /\ notifications.syncs < MaxSyncs
    /\ LET result ==
               sync_deprecation_notifications(
                   notifications.table, notifications.next_id,
                   notifications.snap)
       IN notifications' =
             [notifications EXCEPT
                 !.table = result.table,
                 !.next_id = result.next_id,
                 !.syncs = @ + 1,
                 !.last = "sync",
                 !.before = notifications.table]
    /\ UNCHANGED notNotifications

\* The snap is reconfigured between two calls.
SetSnapMode(snap) ==
    /\ notifications.snap # snap
    /\ notifications' = [notifications EXCEPT !.snap = snap, !.last = "snap"]
    /\ UNCHANGED notNotifications

NextNotifications ==
    \/ SyncDeprecationNotifications
    \/ \E snap \in Snaps : SetSnapMode(snap)

SpecNotifications == InitNotifications /\ [][NextNotifications]_vars

\* ------------------------------------------------------------- start_up
\* The region controller processes that call start_up when they start.
Procs == {"p1", "p2", "p3"}

\* What a LockChecker patched over a function has recorded.
NoLockChecker == [call_count |-> 0, lock_was_held |-> "None"]

\* LockChecker.__call__ in process p: the call is counted, and whether the
\* startup lock was held is noted.
lock_checker_call(checker, lock, p) ==
    [call_count |-> checker.call_count + 1,
     lock_was_held |-> IF lock = p THEN "True" ELSE "False"]

\* start_up: inner_start_up under the startup lock, then refresh_workers
\* once the lock is released.
start_up_refresh_under_lock ==
    <<"acquire", "inner_start_up", "refresh_workers", "release">>
start_up == <<"acquire", "inner_start_up", "release", "refresh_workers">>

InitStartUp ==
    /\ ServiceAtRest
    /\ NetworkAtRest
    /\ vlanTable = {}
    /\ ListAtRest
    /\ cache = NoCache
    /\ rangeSvc = NoRangeSvc
    /\ filters = NoQuery
    /\ builder = NoBuilder
    /\ secrets = NoSecrets
    /\ fileId = NoFileId
    /\ notifications = NoNotifications
    /\ startup =
          [pc |-> "run", lock |-> "free",
           at |-> [p \in Procs |-> 0],
           raised |-> [p \in Procs |-> FALSE],
           inner_start_up |-> [p \in Procs |-> NoLockChecker],
           refresh_workers |-> [p \in Procs |-> NoLockChecker]]

notStartUp ==
    <<serviceVars, networkVars, vlanTable, listVars, cache, rangeSvc,
      filters, builder, secrets, fileId, notifications>>

\* A process calls start_up.
StartUpCall(p) ==
    /\ startup.at[p] = 0
    /\ startup' = [startup EXCEPT !.at[p] = 1]
    /\ UNCHANGED notStartUp

\* The startup lock is taken when no process holds it.
StartUpAcquire(p) ==
    /\ startup.at[p] \in DOMAIN start_up
    /\ start_up[startup.at[p]] = "acquire"
    /\ startup.lock = "free"
    /\ startup' = [startup EXCEPT !.lock = p, !.at[p] = @ + 1]
    /\ UNCHANGED notStartUp

\* inner_start_up is called; when it raises, the lock is released on the
\* way out and start_up ends with the exception.
StartUpInner(p, raises) ==
    /\ startup.at[p] \in DOMAIN start_up
    /\ start_up[startup.at[p]] = "inner_start_up"
    /\ startup' =
          [startup EXCEPT
              !.inner_start_up[p] = lock_checker_call(@, startup.lock, p),
              !.raised[p] = raises,
              !.lock = IF raises /\ @ = p THEN "free" ELSE @,
              !.at[p] = IF raises THEN Len(start_up) + 1 ELSE @ + 1]
    /\ UNCHANGED notStartUp

\* The startup lock is released.
StartUpRelease(p) ==
    /\ startup.at[p] \in DOMAIN start_up
    /\ start_up[startup.at[p]] = "release"
    /\ startup' = [startup EXCEPT
                      !.lock = IF @ = p THEN "free" ELSE @,
                      !.at[p] = @ + 1]
    /\ UNCHANGED notStartUp

\* NodeGroup.objects.refresh_workers is called.
StartUpRefreshWorkers(p) ==
    /\ startup.at[p] \in DOMAIN start_up
    /\ start_up[startup.at[p]] = "refresh_workers"
    /\ startup' =
          [startup EXCEPT
              !.refresh_workers[p] = lock_checker_call(@, startup.lock, p),
              !.at[p] = @ + 1]
    /\ UNCHANGED notStartUp

NextStartUp ==
    \/ \E p \in Procs : StartUpCall(p)
    \/ \E p \in Procs : StartUpAcquire(p)
    \/ \E p \in Procs, raises \in BOOLEAN : StartUpInner(p, raises)
    \/ \E p \in Procs : StartUpRelease(p)
    \/ \E p \in Procs : StartUpRefreshWorkers(p)

SpecStartUp == InitStartUp /\ [][NextStartUp]_vars

\* ----------------------------------------------------------- properties
Range(seq) == {seq[i] : i \in DOMAIN seq}

\* The ConfigureDHCP calls among a sequence of workflow calls.
DhcpCalls(calls) ==
    {i \in DOMAIN calls :
        calls[i].workflow_name = CONFIGURE_DHCP_WORKFLOW_NAME}

\* The union of the parameters of a set of calls.
UnionOfParams(calls) ==
    ConfigureDHCPParam(
        UNION {c.parameter.static_ip_addr_ids : c \in calls},
        UNION {c.parameter.subnet_ids : c \in calls})

\* Ids of the non-DISCOVERED addresses unit u created with create.
CreatedIds(u) ==
    {h.row.id : h \in {g \in history[u] :
        g.kind = "create" /\ g.row.alloc_type # DISCOVERED}}

\* Ids of the rows unit u created or updated, and the subnets of the rows it
\* deleted.
OwnStaticIds(u) ==
    {h.row.id : h \in {g \in history[u] : g.kind # "delete"}}
OwnSubnetIds(u) ==
    {h.row.subnet_id : h \in {g \in history[u] : g.kind = "delete"}}

\* C1: a unit of work that created one or more non-DISCOVERED addresses and
\* ended normally sent exactly one ConfigureDHCP call, whose
\* static_ip_addr_ids holds the id of every address it created.
C1_OneMergedCallPerUnit ==
    \A u \in Units :
        (phase[u] = "committed" /\ CreatedIds(u) # {}) =>
            /\ Cardinality(DhcpCalls(dispatched[u])) = 1
            /\ \A i \in DhcpCalls(dispatched[u]) :
                  CreatedIds(u) \subseteq
                      dispatched[u][i].parameter.static_ip_addr_ids

C1_Witness ==
    \E u \in Units :
        /\ phase[u] = "committed"
        /\ Cardinality(CreatedIds(u)) >= 2
        /\ Len(dispatched[u]) = 1

\* C2: a create, update, create_or_update or delete that succeeded registered
\* one ConfigureDHCP call if the address it returned is not DISCOVERED and
\* none if it is DISCOVERED; a call that did not succeed registered none.
C2_RegistersIffNotDiscovered ==
    \A u \in Units :
        LET e == last[u]
        IN IF e.outcome = "ok"
           THEN IF e.result.alloc_type # DISCOVERED
                THEN /\ Len(e.calls) = 1
                     /\ e.calls[1].workflow_name = CONFIGURE_DHCP_WORKFLOW_NAME
                ELSE e.calls = <<>>
           ELSE e.calls = <<>>

C2_Witness ==
    \E u \in Units :
        /\ last[u].op \in UpdateOps
        /\ last[u].outcome = "ok"
        /\ last[u].existing.alloc_type = AUTO
        /\ last[u].result.alloc_type = DISCOVERED
        /\ last[u].calls = <<>>

\* C3: every call a delete registers has subnet_ids = {subnet_id of the
\* deleted row} and no static_ip_addr_ids; every call a create, update or
\* create_or_update registers has static_ip_addr_ids = {id of the row} and no
\* subnet_ids; every registration is made with wait = FALSE.
C3_DeleteKeyedBySubnet ==
    \A u \in Units :
        LET e == last[u]
        IN \A i \in DOMAIN e.calls :
              /\ e.calls[i].wait = FALSE
              /\ e.calls[i].parameter =
                    IF e.op \in DeleteOps
                    THEN ConfigureDHCPParam({}, {e.result.subnet_id})
                    ELSE ConfigureDHCPParam({e.result.id}, {})

C3_Witness ==
    \E u \in Units :
        /\ last[u].op \in DeleteOps
        /\ last[u].outcome = "ok"
        /\ Len(last[u].calls) = 1
        /\ last[u].result.id # last[u].result.subnet_id

\* C4: nothing is sent to the workflow engine before the unit of work has
\* ended normally; a unit that ended without a registration sent nothing; a
\* unit that ended with registrations sent one call, made with wait = FALSE,
\* whose parameter is the union of the parameters registered in the unit.
C4_DispatchOnceAtEnd ==
    \A u \in Units :
        LET registered == temporal[ServiceKey(u)].registered
        IN IF phase[u] = "committed" /\ registered # {}
           THEN /\ Len(dispatched[u]) = 1
                /\ dispatched[u][1].workflow_name = CONFIGURE_DHCP_WORKFLOW_NAME
                /\ dispatched[u][1].wait = FALSE
                /\ dispatched[u][1].parameter = UnionOfParams(registered)
           ELSE dispatched[u] = <<>>

C4_Witness ==
    \E u \in Units :
        /\ phase[u] = "committed"
        /\ Cardinality(temporal[ServiceKey(u)].registered) = 2
        /\ Len(dispatched[u]) = 1

\* C5: a unit of work that aborted has sent no workflow call and no row it
\* created is in the committed table; the committed table changes only in
\* the step that commits a unit of work.
C5_AbortedState ==
    \A u \in Units :
        phase[u] = "aborted" =>
            /\ dispatched[u] = <<>>
            /\ \A h \in history[u] :
                  h.kind = "create" => rows[h.row.id] = NoRow

C5_OnlyCommitWrites ==
    rows' # rows =>
        \E u \in Units : phase[u] = "running" /\ phase'[u] = "committed"

C5_AbortLeavesNothing == []C5_AbortedState /\ [][C5_OnlyCommitWrites]_vars

C5_Witness ==
    \E u \in Units :
        /\ phase[u] = "aborted"
        /\ temporal[ServiceKey(u)].registered # {}
        /\ \E h \in history[u] : h.kind = "create"

\* C6: the call a unit of work sends holds only ids of rows that unit itself
\* created or updated and subnets of rows that unit itself deleted, whatever
\* the other unit registered meanwhile.
C6_NoCrossRequestMerge ==
    \A u \in Units :
        \A i \in DOMAIN dispatched[u] :
            /\ dispatched[u][i].parameter.static_ip_addr_ids
                  \subseteq OwnStaticIds(u)
            /\ dispatched[u][i].parameter.subnet_ids \subseteq OwnSubnetIds(u)

\* One unit has sent its call while the other, which registered first, is
\* still running with its own call pending.
C6_Witness ==
    \E u, v \in Units :
        /\ u # v
        /\ phase[u] = "committed" /\ dispatched[u] # <<>>
        /\ phase[v] = "running"
        /\ temporal[ServiceKey(v)].post_commit_workflows # <<>>
        /\ \E g \in history[u], h \in history[v] :
              g.kind = "create" /\ h.kind = "create" /\ h.row.id < g.row.id

\* C7: an update or delete given an etag_if_match that differs from the etag
\* of the row it read fails with precondition-failed after the etag check
\* alone: no repository call, no hook, no registration, and the step changes
\* neither the transaction's writes nor the committed table; a call suspended
\* before its repository write passed the check; without etag_if_match no
\* call fails with precondition-failed.
C7_State ==
    \A u \in Units :
        LET e == last[u]
            o == op[u]
        IN /\ ( /\ e.op \in UpdateOps \cup DeleteOps
                /\ e.existing # NoRow
                /\ e.etag_if_match # NoEtag
                /\ e.etag_if_match # Etag(e.existing) ) =>
                    /\ e.outcome = "precondition_failed"
                    /\ e.events = <<"etag_check">>
                    /\ e.calls = <<>>
                    /\ e.result = NoRow
           /\ (o.kind # "none" /\ o.etag_if_match # NoEtag) =>
                 o.etag_if_match = Etag(o.existing)
           /\ e.etag_if_match = NoEtag => e.outcome # "precondition_failed"

C7_Step ==
    \A u \in Units :
        (last'[u] # last[u] /\ last'[u].outcome = "precondition_failed") =>
            /\ last'[u].existing = View(u)[last'[u].id]
            /\ tx' = tx /\ rows' = rows /\ temporal' = temporal

C7_StaleEtagFails == []C7_State /\ [][C7_Step]_vars

C7_Witness ==
    \E u \in Units :
        /\ last[u].op \in DeleteOps
        /\ last[u].outcome = "precondition_failed"
        /\ last[u].existing # NoRow

\* C8: an update on an id or query that matches no row fails with not-found
\* without an etag check, a repository call, a hook or a registration, and
\* the step changes neither the transaction's writes nor the committed
\* table; an update never goes on to its repository write without a row.
C8_State ==
    \A u \in Units :
        /\ (last[u].op \in UpdateOps /\ last[u].existing = NoRow) =>
              /\ last[u].outcome = "not_found"
              /\ last[u].events = <<>>
              /\ last[u].calls = <<>>
        /\ op[u].kind \in UpdateOps => op[u].existing # NoRow

C8_Step ==
    \A u \in Units :
        ( /\ last'[u] # last[u]
          /\ last'[u].op \in UpdateOps
          /\ last'[u].existing = NoRow ) =>
            /\ View(u)[last'[u].id] = NoRow
            /\ tx' = tx /\ rows' = rows /\ temporal' = temporal

C8_UpdateMissingNotFound == []C8_State /\ [][C8_Step]_vars

C8_Witness ==
    \E u \in Units :
        /\ last[u].op \in UpdateOps
        /\ last[u].existing = NoRow
        /\ last[u].etag_if_match # NoEtag
        /\ last[u].outcome = "not_found"

\* C9 as stated: a delete_by_id on an id without a row ends with a not-found
\* error.
C9_DeleteMissingRaises ==
    \A u \in Units :
        (last[u].op = "delete_by_id" /\ last[u].existing = NoRow) =>
            last[u].outcome = "not_found"

\* C9 amended: a delete_by_id or delete_one that finds no row returns None
\* normally, without error, hook, repository delete or registration, and the
\* unit of work goes on; an update_by_id on a missing row is what raises
\* not-found.
C9_DeleteMissingReturnsNone ==
    \A u \in Units :
        /\ (last[u].op \in DeleteOps /\ last[u].existing = NoRow) =>
              /\ last[u].outcome = "none"
              /\ last[u].result = NoRow
              /\ last[u].events = <<>>
              /\ last[u].calls = <<>>
              /\ phase[u] = "running"
        /\ (last[u].op \in UpdateOps /\ last[u].existing = NoRow) =>
              last[u].outcome = "not_found" /\ phase[u] = "failed"

C9_Witness ==
    \E u \in Units :
        /\ last[u].op = "delete_by_id"
        /\ last[u].existing = NoRow
        /\ last[u].outcome = "none"
        /\ phase[u] = "running"

\* C10: a delete suspended before its repository delete has already run
\* pre_delete_hook, on the row that was stored when it ran; a delete whose
\* pre_delete_hook raised issued no repository delete; a delete that reached
\* the repository ran post_delete_hook once, after the repository delete, if
\* the repository removed a row, and not at all if it removed none.
C10_State ==
    \A u \in Units :
        LET e == last[u]
            o == op[u]
        IN /\ o.kind \in DeleteOps =>
                 /\ o.existing # NoRow
                 /\ o.events = <<"etag_check", "pre_delete_hook">>
           /\ (e.op \in DeleteOps /\ e.outcome = "pre_delete_hook_error") =>
                 e.events = <<"etag_check", "pre_delete_hook">>
           /\ (e.op \in DeleteOps
               /\ "repository.delete_by_id" \in Range(e.events)) =>
                 e.events =
                    IF e.result # NoRow
                    THEN <<"etag_check", "pre_delete_hook",
                           "repository.delete_by_id", "post_delete_hook">>
                    ELSE <<"etag_check", "pre_delete_hook",
                           "repository.delete_by_id">>

C10_Step ==
    \A u \in Units :
        /\ (op[u] = NoOp /\ op'[u].kind \in DeleteOps) =>
              /\ View(u)[op'[u].id] = op'[u].existing
              /\ tx' = tx /\ rows' = rows
        /\ (op[u].kind \in DeleteOps /\ op'[u] = NoOp
            /\ phase'[u] = "running") =>
              /\ last'[u].result = View(u)[op[u].id]
              /\ tx'[u][op[u].id] = IF last'[u].result = NoRow
                                    THEN tx[u][op[u].id] ELSE NoRow

C10_DeleteHookOrder == []C10_State /\ [][C10_Step]_vars

\* The row vanished between the fetch and the repository delete.
C10_Witness ==
    \E u \in Units :
        /\ last[u].op \in DeleteOps
        /\ last[u].existing # NoRow
        /\ last[u].result = NoRow
        /\ last[u].events = <<"etag_check", "pre_delete_hook",
                              "repository.delete_by_id">>

\* The operations C11 is about, the repository mutation each makes and the
\* post hook each calls.
HookedOps == {"create", "update_many", "delete_many"} \cup UpdateOps

MutationOf(opname) ==
    IF opname = "create" THEN "repository.create"
    ELSE IF opname \in UpdateOps THEN "repository.update_by_id"
    ELSE IF opname = "update_many" THEN "repository.update_many"
    ELSE "repository.delete_many"

PostHookOf(opname) ==
    IF opname = "create" THEN "post_create_hook"
    ELSE IF opname \in UpdateOps THEN "post_update_hook"
    ELSE IF opname = "update_many" THEN "post_update_many_hook"
    ELSE "post_delete_many_hook"

Occurrences(events, name) ==
    Cardinality({i \in DOMAIN events : events[i] = name})

\* C11: in a finished create, update_by_id, update_one, update_many or
\* delete_many, validation comes before the repository mutation and the
\* post hook after it: the post hook is called at most once, and when it is
\* called it is the last step, right after the repository mutation, itself
\* made once; it is called once when the mutation returned (always so for
\* create and the *_many operations, which validate nothing), and not at all
\* when the call ended in not-found or precondition-failed, raised by
\* validation or by the repository; post_update_hook is called with the
\* resource read before the update and the resource the update returned.
C11_ValidateMutateHook ==
    \A u \in Units :
        LET e == last[u]
            n == Len(e.events)
            hook == PostHookOf(e.op)
            mutation == MutationOf(e.op)
        IN e.op \in HookedOps =>
            /\ Occurrences(e.events, hook) <= 1
            /\ Occurrences(e.events, mutation) <= 1
            /\ Occurrences(e.events, hook) = 1 =>
                  /\ n >= 2
                  /\ e.events[n] = hook
                  /\ e.events[n - 1] = mutation
            /\ \A i \in DOMAIN e.events :
                  e.events[i] = mutation =>
                      \A j \in 1..(i - 1) : e.events[j] = "etag_check"
            /\ e.outcome \in {"not_found", "precondition_failed"} =>
                  Occurrences(e.events, hook) = 0
            /\ (e.outcome = "ok" \/ e.op \in {"update_many", "delete_many"}) =>
                  Occurrences(e.events, hook) = 1
            /\ (e.op \in UpdateOps /\ Occurrences(e.events, hook) = 1) =>
                  e.hook_args = <<e.existing, e.result>>

C11_Witness ==
    \E u \in Units :
        /\ last[u].op \in UpdateOps
        /\ last[u].outcome = "ok"
        /\ last[u].existing.alloc_type # last[u].result.alloc_type
        /\ last[u].events = <<"etag_check", "repository.update_by_id",
                              "post_update_hook">>
        /\ last[u].hook_args = <<last[u].existing, last[u].result>>

\* Subnet id is stored, its VLAN has DHCP enabled and one of its own ranges
\* is dynamic.
Serving(id) ==
    \E s \in subnetTable, v \in vlanTable, r \in ipRangeTable :
        /\ s.id = id
        /\ v.id = s.vlan_id /\ v.dhcp_on
        /\ r.subnet_id = id /\ r.type = "dynamic"

\* Some stored range is dynamic and some stored VLAN has DHCP enabled.
DynamicRangeAndDhcpStored ==
    /\ \E r \in ipRangeTable : r.type = "dynamic"
    /\ \E v \in vlanTable : v.dhcp_on

C12_State ==
    deletion.error # NoError =>
        /\ deletion.pc \in {"rejected", "aborted"}
        /\ deletion.deleted = NoSubnet
        /\ \E s \in subnetTable : s.id = deletion.id

C12_Step ==
    /\ (deletion.pc = "idle" /\ deletion'.pc # "idle") =>
          /\ Serving(deletion'.id) =>
                /\ deletion'.pc = "rejected"
                /\ deletion'.error.type = PRECONDITION_FAILED
          /\ deletion'.pc = "rejected" => DynamicRangeAndDhcpStored
    /\ (deletion' # deletion /\ deletion'.error # NoError) =>
          UNCHANGED <<subnetTable, vlanTable, ipRangeTable>>

C13_OnlyOwnRangesBlock ==
    [][(/\ deletion.pc = "idle"
        /\ deletion'.pc # "idle"
        /\ \E s \in subnetTable : s.id = deletion'.id
        /\ ~Serving(deletion'.id))
       => deletion'.pc = "checked"]_vars

\* C14: no committed delete removed a subnet that had, when the DELETE
\* statement ran, a dynamic range on a DHCP-enabled VLAN.
C14_CheckAtomicWithDelete ==
    (deletion.pc = "committed" /\ deletion.deleted # NoSubnet) =>
        ~deletion.serving

\* The plain form of an address: the IPv4 address an IPv4-mapped IPv6
\* address stands for, any other address itself.
PlainAddress(ip) ==
    IF ip.version = 6 /\ ip.value >= Pow2(AddrBits)
    THEN [version |-> 4, value |-> ip.value - Pow2(AddrBits)]
    ELSE ip

\* The stored subnets whose CIDR contains the address.
SubnetsContaining(ip) ==
    {s \in subnetTable : CidrContains(s.cidr, ip)}

DhcpOn(subnet) ==
    \E v \in vlanTable : v.id = subnet.vlan_id /\ v.dhcp_on

\* Subnet s comes before subnet t in the order (dhcp_on descending, prefix
\* length descending).
Preferred(s, t) ==
    \/ DhcpOn(s) /\ ~DhcpOn(t)
    \/ DhcpOn(s) = DhcpOn(t) /\ s.cidr.prefixlen > t.cidr.prefixlen

Holds(iprange, ip) ==
    /\ iprange.start_ip.version = ip.version
    /\ iprange.start_ip.value <= ip.value
    /\ ip.value <= iprange.end_ip.value

StoredVlanIds == {v.id : v \in vlanTable}

StrictlyDescending(seq) ==
    \A i \in 1..(Len(seq) - 1) : seq[i] > seq[i + 1]

\* C18: the items an iteration has returned so far, pages put end to end,
\* are in strictly descending id order (so none comes twice), and when the
\* iteration ends on an absent next_token they are exactly the stored
\* entities.
C18_IterationReturnsAllOnce ==
    /\ StrictlyDescending(cursor.seen)
    /\ Range(cursor.seen) \subseteq StoredVlanIds
    /\ cursor.state = "done" =>
          /\ Range(cursor.seen) = StoredVlanIds
          /\ Len(cursor.seen) = Cardinality(StoredVlanIds)

C18_Witness ==
    /\ cursor.state = "done"
    /\ cursor.size = 2
    /\ Len(cursor.seen) = MaxVlans
    /\ page.token # NoToken

\* C19 as stated: next_token is the id of the last item of the page, and a
\* call with token t returns only items after the item with id t.
C19_TokenIsLastSeen ==
    /\ page.next_token # NoNextToken =>
          page.next_token = page.items[Len(page.items)]
    /\ page.token # NoToken =>
          \A i \in DOMAIN page.items : page.items[i] < int(page.token)

\* C19 amended: next_token is the id of the first item not yet returned,
\* the stored id next below the last item of the page, and a call with
\* token t returns the items with id <= t, starting with the item with id
\* t itself when it is stored.
C19_TokenIsNextItem ==
    /\ page.next_token # NoNextToken =>
          /\ page.next_token \in StoredVlanIds
          /\ page.next_token < page.items[Len(page.items)]
          /\ \A i \in StoredVlanIds :
                ~(page.next_token < i /\ i < page.items[Len(page.items)])
    /\ page.token # NoToken =>
          /\ \A i \in DOMAIN page.items : page.items[i] <= int(page.token)
          /\ int(page.token) \in StoredVlanIds =>
                page.items[1] = int(page.token)

C19_Witness ==
    /\ page.token # NoToken
    /\ page.items # <<>>
    /\ page.items[1] = int(page.token)
    /\ page.next_token # NoNextToken
    /\ cursor.state = "more"

\* The rows eligible for the last call.
Eligible ==
    {i \in StoredVlanIds : page.token = NoToken \/ i <= int(page.token)}

\* C20: a call list(token, size) returns at most size items; next_token is
\* present exactly when more than size rows are eligible, and then the
\* page holds size items and next_token is the highest eligible id not in
\* the page; when it is absent the page holds all the eligible rows.
C20_PageAndNextToken ==
    page # NoPage =>
        /\ Len(page.items) <= page.size
        /\ Range(page.items) \subseteq Eligible
        /\ (page.next_token # NoNextToken) <=>
              (Cardinality(Eligible) > page.size)
        /\ page.next_token # NoNextToken =>
              /\ Len(page.items) = page.size
              /\ page.next_token \in Eligible \ Range(page.items)
              /\ \A i \in Eligible \ Range(page.items) :
                    i <= page.next_token
        /\ page.next_token = NoNextToken =>
              Range(page.items) = Eligible

C20_Witness ==
    /\ page.token # NoToken
    /\ int(page.token) \notin StoredVlanIds
    /\ page.next_token # NoNextToken
    /\ Len(page.items) = page.size
    /\ page.size >= 2

\* C21: on a service that has a cache, a call made while the slot holds a
\* value returns that value and does not execute the method, whatever its
\* argument; a call made while the slot is empty executes the method,
\* stores its result in the slot and returns it; the slot keeps its value
\* until the cache is cleared or a call that missed stores its result.
C21_Hit ==
    /\ (cache.enabled /\ cache.slot # None)
          => \A u \in Units :
                cache.pending[u] = Idle => cache'.pending[u] = Idle
    /\ (cache.enabled /\ cache'.ret # cache.ret /\ ~cache'.ret.executed)
          => /\ cache'.ret.value = cache.slot
             /\ cache'.slot = cache.slot
C21_Miss ==
    /\ (cache.enabled /\ cache'.ret # cache.ret /\ ~cache'.ret.executed)
          => cache.slot # None
    /\ \A u \in Units :
          (cache.enabled /\ cache.pending[u] # Idle
              /\ cache'.pending[u] = Idle)
             => /\ cache'.slot = wrapped_fn(cache.pending[u])
                /\ cache'.ret =
                      [unit |-> u, arg |-> cache.pending[u],
                       value |-> wrapped_fn(cache.pending[u]),
                       executed |-> TRUE]
C21_Keeps ==
    cache'.slot # cache.slot
        => \/ cache'.slot = None
           \/ \E u \in Units :
                 /\ cache.pending[u] # Idle
                 /\ cache'.pending[u] = Idle
C21_CacheHitOrExecute == [][C21_Hit /\ C21_Miss /\ C21_Keeps]_vars

\* A call with another argument than the one cached was answered from the
\* slot.
C21_Witness ==
    /\ cache.enabled
    /\ ~cache.ret.executed
    /\ cache.ret.arg # Idle
    /\ cache.ret.value # wrapped_fn(cache.ret.arg)
    /\ cache.ret.value = cache.slot

\* C22: after any sequence of creates and updates through the IP range
\* service no two stored ranges of one subnet have an address in common; a
\* create or update whose interval intersects another range of its subnet
\* is rejected and leaves the stored ranges as they were.
C22_State ==
    \A a, b \in ipRangeTable :
        (a # b /\ a.subnet_id = b.subnet_id)
            => \A v \in 0..MaxRangeAddr :
                  ~(InIPRange(IPv4(v), a.start_ip, a.end_ip)
                       /\ InIPRange(IPv4(v), b.start_ip, b.end_ip))
C22_Step ==
    /\ (rangeSvc'.opsDone # rangeSvc.opsDone
           /\ rangeSvc'.last.outcome = "rejected")
          => ipRangeTable' = ipRangeTable
    /\ (rangeSvc'.opsDone # rangeSvc.opsDone
           /\ rangeSvc'.last.op \in {"create", "update_by_id"}
           /\ rangeSvc'.last.outcome = "ok")
          => \A r \in ipRangeTable :
                (r.id # rangeSvc'.last.id
                    /\ r.subnet_id = rangeSvc'.last.result.subnet_id)
                   => \A v \in 0..MaxRangeAddr :
                         ~(InIPRange(IPv4(v), r.start_ip, r.end_ip)
                              /\ InIPRange(IPv4(v),
                                           rangeSvc'.last.result.start_ip,
                                           rangeSvc'.last.result.end_ip))
C24_State ==
    (rangeSvc.last.op \in {"create", "update_by_id"}
        /\ rangeSvc.last.outcome = "ok")
       => /\ Len(rangeSvc.last.repository) = 1
          /\ rangeSvc.last.repository[1].fn = rangeSvc.last.op
          /\ rangeSvc.last.result \in ipRangeTable
          /\ rangeSvc.temporal.calls =
                <<WorkflowCall(
                      CONFIGURE_DHCP_WORKFLOW_NAME,
                      ConfigureDHCPParamOf({}, {rangeSvc.last.result.id}, {}),
                      FALSE)>>
C24_Step ==
    (rangeSvc'.opsDone # rangeSvc.opsDone
        /\ rangeSvc'.last.op \in {"create", "update_by_id"}
        /\ rangeSvc'.last.outcome = "ok")
       => LET before == rangeSvc.temporal.post_commit_workflows
              after == rangeSvc'.temporal.post_commit_workflows
              parameter ==
                  ConfigureDHCPParamOf({}, {rangeSvc'.last.result.id}, {})
          IN /\ Len(after) = 1
             /\ after[1].workflow_name = CONFIGURE_DHCP_WORKFLOW_NAME
             /\ after[1].wait = FALSE
             /\ after[1].parameter =
                   IF before = <<>>
                   THEN parameter
                   ELSE merge_configure_dhcp_param[
                            <<before[1].parameter, parameter>>]
C24_CreateUpdateRegisterRangeId == []C24_State /\ [][C24_Step]_vars

\* An update registered its range while the call of an earlier create of
\* the request was pending: the pending call names both ranges.
C24_Witness ==
    /\ rangeSvc.last.op = "update_by_id"
    /\ rangeSvc.last.outcome = "ok"
    /\ Len(rangeSvc.temporal.post_commit_workflows) = 1
    /\ Cardinality(
           rangeSvc.temporal.post_commit_workflows[1].parameter.ip_range_ids)
         = 2

\* C25: a delete_by_id of the IP range service on a stored range makes one
\* delete of DHCP snippets keyed by the id of the range, one delete_by_id
\* of the repository, and registers exactly one ConfigureDHCP workflow
\* call whose subnet_ids is the subnet of the deleted range and whose
\* ip_range_ids is empty.
C25_DeleteSnippetsRangeRegisterSubnet ==
    (rangeSvc.last.op = "delete_by_id" /\ rangeSvc.last.outcome = "ok")
       => /\ rangeSvc.last.snippet_deletes = <<rangeSvc.last.id>>
          /\ \A d \in rangeSvc.snippets : d.iprange_id # rangeSvc.last.id
          /\ rangeSvc.last.repository =
                <<RepositoryCall("delete_by_id", rangeSvc.last.id,
                                 NoResource)>>
          /\ \A r \in ipRangeTable : r.id # rangeSvc.last.id
          /\ rangeSvc.temporal.calls =
                <<WorkflowCall(
                      CONFIGURE_DHCP_WORKFLOW_NAME,
                      ConfigureDHCPParamOf(
                          {}, {}, {rangeSvc.last.result.subnet_id}),
                      FALSE)>>

\* A range with a snippet attached was deleted.
C25_Witness ==
    /\ rangeSvc.last.op = "delete_by_id"
    /\ rangeSvc.last.outcome = "ok"
    /\ rangeSvc.last.deleted_snippets # {}
    /\ rangeSvc.temporal.calls # <<>>

\* C23: an update_by_id of a stored resource that passes the current etag
\* of the resource as etag_if_match succeeds; when the values of its
\* resource equal the stored ones the row is returned as it was; and the
\* etag of the updated resource equals the etag it had before exactly when
\* none of its content fields was changed by the update.
C23_State ==
    \A u \in Units :
        LET e == last[u]
        IN /\ (e.op = "update_by_id" /\ e.existing # NoRow
                  /\ e.etag_if_match = Etag(e.existing))
                 => e.outcome = "ok"
           /\ (e.op = "update_by_id" /\ e.outcome = "ok")
                 => (Etag(e.result) = Etag(e.existing)
                        <=> /\ e.result.alloc_type = e.existing.alloc_type
                            /\ e.result.subnet_id = e.existing.subnet_id)
C23_Step ==
    \A u \in Units :
        (/\ op[u].kind = "update_by_id"
         /\ op'[u] = NoOp
         /\ phase'[u] \in {"running", "failed"}
         /\ op[u].etag_if_match = Etag(op[u].existing)
         /\ op[u].resource.alloc_type
               \in {UnsetAlloc, op[u].existing.alloc_type}
         /\ op[u].resource.subnet_id
               \in {UnsetSubnet, op[u].existing.subnet_id})
           => /\ last'[u].outcome = "ok"
              /\ last'[u].result = op[u].existing
              /\ Etag(last'[u].result) = op[u].etag_if_match
C30_NoLostUpdate ==
    ~ \E u, v \in Units :
        /\ u # v
        /\ phase[u] = "committed"
        /\ \E g, h \in history[u] :
              /\ g.kind = "update_by_id_if_match"
              /\ h.kind = "update"
              /\ h.row.id = g.row.id
              /\ Etag(h.row) # Etag(g.row)
              /\ rows[g.row.id] = h.row
              /\ last[v].op = "update_by_id"
              /\ last[v].id = g.row.id
              /\ last[v].existing = g.row
              /\ last[v].etag_if_match = Etag(g.row)
              /\ last[v].outcome = "ok"

\* The ids of the rows of an entity whose subnet is on the VLAN, and whose
\* subnet is on a VLAN of the fabric.
OnVlan(db, entity, vlan_id) ==
    {r.id : r \in {c \in RowsOf(db, entity) :
        \E s \in db.subnets : s.id = c.subnet_id /\ s.vlan_id = vlan_id}}
OnFabric(db, entity, fabric_id) ==
    {r.id : r \in {c \in RowsOf(db, entity) :
        \E s \in db.subnets, v \in db.vlans :
            /\ s.id = c.subnet_id
            /\ v.id = s.vlan_id
            /\ v.fabric_id = fabric_id}}
SubnetsOnFabric(db, fabric_id) ==
    {s.id : s \in {c \in db.subnets :
        \E v \in db.vlans : v.id = c.vlan_id /\ v.fabric_id = fabric_id}}

\* The joins lead from the entity up the tables given, each joined to the
\* one before it.
JoinsThrough(joins, entity, tables) ==
    /\ Len(joins) = Len(tables)
    /\ \A i \in DOMAIN joins :
          /\ joins[i].right = tables[i]
          /\ joins[i].left = IF i = 1 THEN entity ELSE tables[i - 1]

\* C27: with_fabric_id on IPRange and on ReservedIP joins the entity to
\* Subnet and Subnet to VLAN and selects exactly the rows whose subnet is
\* on a VLAN of the fabric; with_vlan_id joins Subnet alone and selects
\* exactly the rows whose subnet is on the VLAN; with_fabric_id on Subnet
\* joins VLAN alone and selects exactly the subnets on a VLAN of the fabric.
C27_FiltersJoinUpTheTree ==
    (filters.entity # "none" /\ filters.combinator = "none")
       => LET q == filters
              name == q.names[1]
              value == q.values[1]
          IN /\ (q.entity \in {IPRangeTable, ReservedIPTable}
                    /\ name = "with_fabric_id")
                   => /\ JoinsThrough(q.joins, q.entity,
                                      <<SubnetTable, VlanTable>>)
                      /\ q.result.valid
                      /\ q.result.ids = OnFabric(q.db, q.entity, value)
             /\ (q.entity \in {IPRangeTable, ReservedIPTable}
                    /\ name = "with_vlan_id")
                   => /\ JoinsThrough(q.joins, q.entity, <<SubnetTable>>)
                      /\ q.result.valid
                      /\ q.result.ids = OnVlan(q.db, q.entity, value)
             /\ (q.entity = SubnetTable /\ name = "with_fabric_id")
                   => /\ JoinsThrough(q.joins, q.entity, <<VlanTable>>)
                      /\ q.result.valid
                      /\ q.result.ids = SubnetsOnFabric(q.db, value)

\* The joins the clauses of the filters carry, one after another.
OperandJoins(entity, names, values) ==
    all_joins(clauses_of(entity, names, values))

\* C26: the joins of a clause combined by and_clauses or or_clauses are the
\* joins of its operands, a join of the same tables kept once, and in the
\* combined clause no table is joined more than once, so that the
\* statement built from it names no table twice.
C26_CombinedJoinsOnce ==
    (filters.entity # "none" /\ filters.combinator # "none")
       => LET q == filters
              operands == OperandJoins(q.entity, q.names, q.values)
          IN /\ \A i \in DOMAIN operands :
                   \E k \in DOMAIN q.joins : q.joins[k] = operands[i]
             /\ \A k \in DOMAIN q.joins :
                   \E i \in DOMAIN operands : q.joins[k] = operands[i]
             /\ \A j, k \in DOMAIN q.joins :
                   j # k => q.joins[j].right # q.joins[k].right
             /\ q.result.valid

\* The boot methods of the registry an architecture may name, and the
\* architectures that name none with an arch octet or an HTTP path prefix.
MethodsNamed(arch) ==
    {m \in BootMethodRegistry :
        \/ m.name = arch
        \/ (m.arch_octet # "" /\ m.arch_octet = replace_0x(arch))}
Refused(arch) ==
    \A m \in MethodsNamed(arch) : m.arch_octet = "" /\ ~m.path_prefix_http

\* C28: with_disabled_boot_architectures raises a validation error when an
\* entry of the list names no boot method of the registry, or one with
\* neither an arch octet nor an HTTP path prefix; the error is that of the
\* first such entry, the value of the builder is left as it was, and no
\* repository call follows; when no entry is refused the value is set to
\* the registry names of the entries in the order given.
C28_State ==
    builder.pc = "raised" => builder.repository = <<>>
C28_Step ==
    (builder.pc = "building" /\ builder'.pc \in {"building", "raised"}
        /\ builder' # builder)
       => LET archs == builder'.args
              refused == {i \in DOMAIN archs : Refused(archs[i])}
          IN IF refused # {}
             THEN /\ builder'.pc = "raised"
                  /\ builder'.error = ValidationException
                  /\ builder'.rejected =
                        archs[CHOOSE i \in refused :
                                 \A k \in refused : i <= k]
                  /\ builder'.request = builder.request
                  /\ builder'.repository = <<>>
             ELSE /\ builder'.pc = "building"
                  /\ builder'.error = NoError
                  /\ builder'.request.is_set
                  /\ LET value ==
                            builder'.request.disabled_boot_architectures
                     IN /\ Len(value) = Len(archs)
                        /\ \A i \in DOMAIN archs :
                              \E m \in MethodsNamed(archs[i]) :
                                  value[i] = m.name
C28_RejectWholeListOrStoreNames == []C28_State /\ [][C28_Step]_vars

\* A list whose first entry is known and whose second is not was refused,
\* on a builder that had no value: it still has none.
C28_Witness ==
    /\ builder.pc = "raised"
    /\ Len(builder.args) = 2
    /\ ~Refused(builder.args[1])
    /\ builder.rejected = builder.args[2]
    /\ ~builder.request.is_set

\* C29: IS_VAULT_ENABLED is None until the first produce; a produce made
\* while it is None sets it to the vault_enabled configuration value of
\* that time, False when the configuration is not set; every produce
\* returns a VaultSecretsService when the flag it leaves is true and a
\* LocalSecretsStorageService otherwise; a produce made while the flag is
\* set goes by the flag and leaves it, whatever the configuration has
\* become; the flag goes back to None in a clear and in no other step.
C29_State ==
    secrets.reads = 0 => secrets.IS_VAULT_ENABLED = "None"
C29_Step ==
    /\ secrets'.produced # secrets.produced
          => /\ secrets'.IS_VAULT_ENABLED =
                   IF secrets.IS_VAULT_ENABLED # "None"
                   THEN secrets.IS_VAULT_ENABLED
                   ELSE IF secrets.vault_enabled = "True"
                        THEN "True" ELSE "False"
             /\ \E u \in Units :
                   /\ secrets'.service =
                         [secrets.service EXCEPT
                             ![u] = IF secrets'.IS_VAULT_ENABLED = "True"
                                    THEN VaultSecretsService
                                    ELSE LocalSecretsStorageService]
    /\ (secrets.IS_VAULT_ENABLED # "None"
           /\ secrets'.IS_VAULT_ENABLED # secrets.IS_VAULT_ENABLED)
          => /\ secrets'.IS_VAULT_ENABLED = "None"
             /\ secrets'.produced = secrets.produced
             /\ secrets'.vault_enabled = secrets.vault_enabled
C29_BackendSelectedOnceAndCached == []C29_State /\ [][C29_Step]_vars

\* A produce answered from the cached flag after the configuration had
\* changed: the service is not the one the configuration names now.
C29_Witness ==
    /\ secrets.produced >= 2
    /\ secrets.reads = 1
    /\ secrets.IS_VAULT_ENABLED = "False"
    /\ secrets.vault_enabled = "True"
    /\ \A u \in Units : secrets.service[u] = LocalSecretsStorageService

\* C31: within one lifetime of a cache the wrapped method is executed at
\* most once per slot even when several callers call it while the slot is
\* empty, and all of them receive the same value: no execution begins
\* while another one is in flight, and a call that returns while the slot
\* is filled returns the value of the slot and leaves it.
C31_OneExecution ==
    \A u \in Units :
        (cache.enabled /\ cache.pending[u] = Idle /\ cache'.pending[u] # Idle)
            => \A v \in Units : cache.pending[v] = Idle
C31_SameValue ==
    (cache.enabled /\ cache.slot # None /\ cache'.ret # cache.ret)
        => /\ cache'.ret.value = cache.slot
           /\ cache'.slot = cache.slot
C31_ExecutedOncePerSlot == [][C31_OneExecution /\ C31_SameValue]_vars

\* C32: a None result is never memoized: when the wrapped method returns
\* None the slot is None afterwards and None is returned, and while the
\* slot is None no call is answered without executing the method; without
\* a cache object every call executes the method, returns its result and
\* nothing is stored.
C32_State == ~cache.enabled => cache.slot = None
C32_NoneResult ==
    \A u \in Units :
        (cache.enabled /\ cache.pending[u] # Idle /\ cache'.pending[u] = Idle
            /\ wrapped_fn(cache.pending[u]) = None)
           => /\ cache'.slot = None
              /\ cache'.ret.unit = u
              /\ cache'.ret.executed
              /\ cache'.ret.value = None
C32_ExecutesAgain ==
    (cache.slot = None \/ ~cache.enabled)
        => ~(cache'.ret # cache.ret /\ ~cache'.ret.executed)
C32_NoCache ==
    ~cache.enabled
        => /\ cache'.slot = cache.slot
           /\ \A u \in Units :
                 (cache.pending[u] # Idle /\ cache'.pending[u] = Idle)
                    => cache'.ret.value = wrapped_fn(cache.pending[u])
C32_NoneIsNeverMemoized ==
    []C32_State /\ [][C32_NoneResult /\ C32_ExecutesAgain /\ C32_NoCache]_vars

\* A unit whose call returned None from an enabled cache has called again
\* and the method is being executed for it.
C32_Witness ==
    /\ cache.enabled
    /\ cache.ret.executed
    /\ cache.ret.value = None
    /\ cache.slot = None
    /\ cache.ret.unit \in Units
    /\ cache.pending[cache.ret.unit] # Idle

\* C33: clear() resets every field of the cache to None; the first call
\* of the cached method after clear() executes the wrapped method again and
\* its return stores and returns the fresh result; clear() on a cache whose
\* fields are all None changes nothing but the record of the last
\* operation.
AllNone(c) == c.slot = None /\ \A a \in OtherAttrs : c.others[a] = None
C33_State == cache.last = "clear" => AllNone(cache)
C33_Step ==
    /\ cache'.last = "clear"
          => /\ cache'.pending = cache.pending
             /\ cache'.ret = cache.ret
             /\ AllNone(cache)
                   => cache' =
                         [cache EXCEPT !.last = "clear", !.cleared = TRUE]
    /\ (cache.cleared /\ cache'.last = "call")
          => \E u \in Units :
                /\ cache.pending[u] = Idle
                /\ cache'.pending[u] # Idle
                /\ cache'.ret = cache.ret
    /\ \A u \in Units :
          (cache.enabled /\ cache'.last = "return"
              /\ cache.pending[u] # Idle /\ cache'.pending[u] = Idle)
             => /\ cache'.slot = wrapped_fn(cache.pending[u])
                /\ cache'.ret.value = wrapped_fn(cache.pending[u])
C33_ClearResetsEverySlot == []C33_State /\ [][C33_Step]_vars

\* C34: when other requests insert or delete rows between the page
\* fetches of one iteration, the ids returned over the iteration are
\* strictly descending (so no entity is returned twice), and once the
\* iteration is done every row stored throughout it whose id is not above
\* the highest id of the first page has been returned.
C34_Descending ==
    \A i, j \in 1..Len(cursor.seen) :
        i < j => cursor.seen[i] > cursor.seen[j]
C34_Complete ==
    (cursor.state = "done" /\ cursor.seen # <<>>)
        => \A id \in stable :
              id <= cursor.seen[1]
                 => \E i \in 1..Len(cursor.seen) : cursor.seen[i] = id
C34_IterationUnderWrites == C34_Descending /\ C34_Complete

\* An iteration of more than one page is done; it returned a row that was
\* inserted or deleted while it ran and rows that were stored throughout.
C34_Witness ==
    /\ cursor.state = "done"
    /\ Len(cursor.seen) > cursor.size
    /\ \E i \in 1..Len(cursor.seen) : cursor.seen[i] \notin stable
    /\ \E i \in 1..Len(cursor.seen) :
          cursor.seen[i] \in stable /\ i > cursor.size
    /\ \E id \in ListIds : id > cursor.seen[1]

\* ceil(n / d) for d >= 1.
Ceil(n, d) == (n + d - 1) \div d

\* Each next_token is below every id of its page and below the token that
\* produced the page.
C35_TokenDecreases ==
    page.next_token # NoNextToken
        => /\ \A i \in DOMAIN page.items : page.next_token < page.items[i]
           /\ page.token # NoToken => page.next_token < int(page.token)

\* C35: for every page size >= 1 each next_token returned by list is
\* strictly smaller than every id in its page and than the token that
\* produced the page, and an iteration following next_token over N stored
\* rows makes at most ceil(N / size) calls.
C35_AtMostCeilCalls ==
    /\ C35_TokenDecreases
    /\ cursor.state # "start"
          => listCalls <= Ceil(Cardinality(vlanTable), cursor.size)

\* C35 amended: the same, the iteration making at most ceil(N / size)
\* calls when rows are stored and one call when none is; while a token is
\* outstanding fewer than ceil(N / size) calls have been made.
C35_AtMostCeilCallsOrOne ==
    /\ C35_TokenDecreases
    /\ cursor.state # "start"
          => /\ vlanTable # {}
                => listCalls <= Ceil(Cardinality(vlanTable), cursor.size)
             /\ vlanTable = {} => listCalls = 1
    /\ cursor.state = "more"
          => listCalls < Ceil(Cardinality(vlanTable), cursor.size)

\* An iteration over stored rows ended with its last page not full, after
\* ceil(N / size) calls, more than one.
C35_Witness ==
    /\ cursor.state = "done"
    /\ listCalls > 1
    /\ listCalls = Ceil(Cardinality(vlanTable), cursor.size)
    /\ Cardinality(vlanTable) % cursor.size # 0
    /\ page.token # NoToken

\* C36: any range get_dynamic_range_for_ip returns is of type dynamic; a
\* reserved range of the subnet holding the address is never returned.
C36_ReturnsDynamicOnly ==
    (answer.fn = "get_dynamic_range_for_ip" /\ answer.iprange # NoIPRange)
        => answer.iprange.type = "dynamic"

\* C37: StaticIPAddressService.update_many and delete_many always end with
\* the not-implemented error and register no ConfigureDHCP workflow call;
\* the error comes from the post hook, which is called after the
\* repository's update_many / delete_many has written in the transaction.
ManyOps == {"update_many", "delete_many"}
C37_State ==
    \A u \in Units :
        last[u].op \in ManyOps
            => /\ last[u].outcome = "not_implemented"
               /\ phase[u] = "failed"
               /\ last[u].calls = <<>>
               /\ last[u].events =
                     <<MutationOf(last[u].op), PostHookOf(last[u].op)>>
               /\ \A r \in last[u].hook_args[1] :
                     tx[u][r.id] =
                        IF last[u].op = "update_many" THEN r ELSE NoRow
C37_Step ==
    \A u \in Units :
        (last'[u].op \in ManyOps /\ last'[u] # last[u])
            => /\ temporal' = temporal
               /\ dispatched' = dispatched
               /\ \A r \in last'[u].hook_args[1] : View(u)[r.id] # NoRow
C37_ManyHooksNotImplemented == []C37_State /\ [][C37_Step]_vars

\* An update_many that matched rows has ended: the rows are written in the
\* transaction and the call failed with not-implemented.
C37_Witness ==
    \E u \in Units :
        /\ last[u].op = "update_many"
        /\ last[u].hook_args[1] # {}
        /\ \E r \in last[u].hook_args[1] :
              tx[u][r.id] = r /\ rows[r.id] # r /\ r.alloc_type # DISCOVERED
        /\ last[u].outcome = "not_implemented"

\* The threads inside `with self._lock`.
InLock(t) ==
    fileId.at[t] \in
        {"set_locked", "set_written", "get_locked", "get_read", "get_return"}

\* C38: for any interleaving of get() and set() of several threads on one
\* FileBackedID the calls exclude each other and are linearizable: at most
\* one thread is inside the lock; a get() returns the stripped value of
\* the most recently completed set(), None when that set was given None,
\* an empty or a whitespace-only value, and then the file is absent; and
\* whenever the lock is free the cached value is None or the stripped
\* content of the file.
C38_Exclusion ==
    /\ \A t, o \in Threads : (InLock(t) /\ InLock(o)) => t = o
    /\ \A t \in Threads : InLock(t) <=> fileId.lock = t
C38_GetReturnsLastSet ==
    \A t \in Threads :
        fileId.at[t] = "get_return"
            => /\ fileId.local[t] = fileId.reg
               /\ fileId.local[t] \in (Texts \ {<<>>}) \cup {NoneStr}
               /\ fileId.local[t] # NoneStr
                     => strip(fileId.local[t]) = fileId.local[t]
C38_CacheMatchesFile ==
    fileId.lock = "free"
        => /\ \/ fileId.value = NoneStr
              \/ /\ fileId.file # NoFile
                 /\ fileId.value = strip(fileId.file)
           /\ fileId.reg =
                 IF fileId.file = NoFile THEN NoneStr
                 ELSE normalise_value(fileId.file)
C38_ExclusiveAndLinearizable ==
    fileId.pc = "run"
        => C38_Exclusion /\ C38_GetReturnsLastSet /\ C38_CacheMatchesFile

\* A get() returns the stripped value of a completed set() that was given
\* a padded value, while the other thread waits for the lock with a
\* different value to set.
C38_Witness ==
    /\ fileId.pc = "run"
    /\ \E t, o \in Threads :
          /\ fileId.at[t] = "get_return"
          /\ fileId.local[t] # NoneStr
          /\ fileId.regPadded
          /\ fileId.at[o] = "set_wait"
          /\ fileId.local[o] # fileId.local[t]

\* The stored deprecation notifications, and the idents of the active
\* deprecations.
DeprecationRows(table) ==
    {r \in table : startswith(r.ident, "deprecation_")}
ActiveIdents(snap) ==
    {dep_ident(id, kind) :
        id \in {d \in DEPRECATIONS :
                   d = "MD1" /\ snap.running_in_snap /\ snap.mode = "all"},
        kind \in {"users", "admins"}}

\* C39: after sync_deprecation_notifications the stored notifications
\* whose ident starts with "deprecation_" are exactly
\* deprecation_<id>_users and deprecation_<id>_admins of each active
\* deprecation, one row each: the missing ones are created, those present
\* are kept as they were, all other deprecation notifications are deleted;
\* a second call with the same active deprecations changes nothing.
C39_State ==
    (notifications.pc = "run" /\ notifications.last = "sync")
        => /\ {r.ident : r \in DeprecationRows(notifications.table)}
                 = ActiveIdents(notifications.snap)
           /\ \A r, q \in DeprecationRows(notifications.table) :
                 r.ident = q.ident => r = q
           /\ \A r \in notifications.before :
                 r.ident \in ActiveIdents(notifications.snap)
                    => r \in notifications.table
           /\ \A r \in notifications.table \ notifications.before :
                 /\ r.ident \in ActiveIdents(notifications.snap)
                 /\ \A q \in notifications.before :
                       q.ident # r.ident /\ q.id # r.id
C39_Step ==
    (notifications.pc = "run" /\ notifications.last = "sync"
        /\ notifications'.syncs = notifications.syncs + 1)
       => /\ notifications'.table = notifications.table
          /\ notifications'.next_id = notifications.next_id
C39_SyncMakesExactlyActive == []C39_State /\ [][C39_Step]_vars

\* A sync in a snap of mode "all" found one of the two notifications,
\* kept it, created the other and deleted one of an earlier deprecation.
C39_Witness ==
    /\ notifications.pc = "run"
    /\ notifications.last = "sync"
    /\ \E r \in notifications.before :
          r.ident = dep_ident("MD1", "admins") /\ r \in notifications.table
    /\ \E r \in notifications.table \ notifications.before :
          r.ident = dep_ident("MD1", "users")
    /\ \E r \in notifications.before \ notifications.table :
          r.ident = dep_ident("MD0", "users")
    /\ \E r \in notifications.table : r.ident = OtherIdent

\* C40: start_up() runs inner_start_up exactly once and only while the
\* startup lock is held, and calls refresh_workers only when the startup
\* lock is not held, the lock being released first; no two processes are
\* in inner_start_up's section at once.
C40_State ==
    startup.pc = "run"
        => \A p \in Procs :
              /\ startup.inner_start_up[p].call_count <= 1
              /\ startup.inner_start_up[p].call_count = 1
                    => startup.inner_start_up[p].lock_was_held = "True"
              /\ startup.refresh_workers[p].call_count <= 1
              /\ startup.refresh_workers[p].call_count = 1
                    => /\ startup.refresh_workers[p].lock_was_held = "False"
                       /\ startup.inner_start_up[p].call_count = 1
                       /\ ~startup.raised[p]
              /\ startup.at[p] = Len(start_up) + 1
                    => /\ startup.inner_start_up[p].call_count = 1
                       /\ startup.lock # p
                       /\ ~startup.raised[p]
                             => startup.refresh_workers[p].call_count = 1
C40_Step ==
    startup.pc = "run"
        => \A p \in Procs :
              /\ startup'.inner_start_up[p] # startup.inner_start_up[p]
                    => startup.lock = p
              /\ startup'.refresh_workers[p] # startup.refresh_workers[p]
                    => /\ startup.lock # p
                       /\ startup'.lock = startup.lock
C40_InnerUnderLockRefreshOutside == []C40_State /\ [][C40_Step]_vars

\* A process has refreshed its workers after its inner_start_up while
\* another process holds the startup lock inside its own start_up.
C40_Witness ==
    /\ startup.pc = "run"
    /\ \E p, q \in Procs :
          /\ startup.at[p] = Len(start_up) + 1
          /\ startup.refresh_workers[p].call_count = 1
          /\ startup.refresh_workers[p].lock_was_held = "False"
          /\ startup.inner_start_up[p].lock_was_held = "True"
          /\ startup.lock = q
          /\ startup.inner_start_up[q].call_count = 1

====
